---- MODULE Spec2Model ----
(***************************************************************************)
(* A model of news_agent.py: the drawback annotator and the summarizer     *)
(* (pure string functions), the JSON store merge (write_json), the mail    *)
(* notifier (send_email) and the linear run of main().                     *)
(*                                                                         *)
(* Python values are represented as follows.                               *)
(*   str            a TLA+ string; Len, SubSeq and \o act on characters    *)
(*   Optional[str]  a sequence of length at most one: None is << >> and    *)
(*                  a present value s is <<s>>                             *)
(*   dict (ordered) a sequence of entries with pairwise distinct keys, in  *)
(*                  insertion order                                        *)
(***************************************************************************)
EXTENDS Integers, Sequences, FiniteSets, TLC

VARIABLES
    \* ---- the annotator / summarizer under test (SpecText)
    tpc,        \* "entry" | "article" | "annotated"
    title,      \* str
    summary,    \* Optional[str]: the article's summary, from extract_summary
    source,     \* Optional[str]
    entry,      \* the feed entry handed to extract_summary
    senv,       \* the external-service world extract_summary met
    env,        \* the external-service world suggest_drawback met
    drawback,   \* result of suggest_drawback
    \* ---- the store merger (SpecStore)
    store,      \* the backing JSON file
    prevStore,  \* the backing file as the last write_json found it
    digest,     \* the Digest of the last write_json
    today,      \* date.today().isoformat() of the last write_json
    merged,     \* list(existing.values()) of the last write_json, before the sort
    serr,       \* the exception write_json left with ("none" when it returned)
    sworlds,    \* the external-service worlds of the last write_json's calls
    op,         \* the last step on the store: "build" | "write_json" | "damage" | "delete"
    \* ---- the run of main() (SpecMain)
    pc,         \* the step main() is at: "load" | "fetch" | "render" | "json" | "email" | "done"
    args,       \* parsed command line
    config,     \* the feed configuration file (None: unreadable)
    feeds,      \* the loaded feed configuration
    fetched,    \* names of the feeds fetched so far, in order
    mdigest,    \* Digest built so far
    html,       \* the HTML output file
    mstore,     \* the JSON output file
    mstore0,    \* the JSON output file as the run found it
    mailbox,    \* messages handed to the mail relay
    net,        \* network connections opened by the current step, in order
    mailenv,    \* the SMTP_* / EMAIL_* environment
    merr,       \* the exception main() ended with ("none" while running)
    steps       \* the steps main() has completed, in order

tvars == <<tpc, title, summary, source, entry, senv, env, drawback>>
svars == <<store, prevStore, digest, today, merged, serr, sworlds, op>>
mvars == <<pc, args, config, feeds, fetched, mdigest, html, mstore, mstore0, mailbox, net, mailenv, merr, steps>>
vars == <<tvars, svars, mvars>>

----------------------------------------------------------------------------
(* Python values *)

None == << >>

Some(s) == <<s>>

\* Python truthiness of an Optional[str]: None and "" are falsy.
Truthy(o) == o # None /\ o[1] # ""

\* `o or default`
OrElse(o, default) == IF Truthy(o) THEN o[1] ELSE default

CharAt(s, i) == SubSeq(s, i, i)

\* The characters a string of the model holds: those of code points 1..255,
\* in code order (the grave accent, code 96, cannot be written in a string
\* constant: "?" stands at its place), and the characters beyond them that
\* the tables below list one by one.
Latin1 ==
    "\t\n\f\r"
    \o " !\"#$%&'()*+,-./0123456789:;<=>?"
    \o "@ABCDEFGHIJKLMNOPQRSTUVWXYZ[\\]^_"
    \o "?abcdefghijklmnopqrstuvwxyz{|}~"
    \o ""
    \o " ¡¢£¤¥¦§¨©ª«¬­®¯°±²³´µ¶·¸¹º»¼½¾¿"
    \o "ÀÁÂÃÄÅÆÇÈÉÊËÌÍÎÏÐÑÒÓÔÕÖ×ØÙÚÛÜÝÞß"
    \o "àáâãäåæçèéêëìíîïðñòóôõö÷øùúûüýþÿ"

\* ord(c), as far as comparisons of strings need it
OrdOf ==
    [c \in {CharAt(Latin1, i) : i \in 1..Len(Latin1)} |->
        CHOOSE i \in 1..Len(Latin1) : CharAt(Latin1, i) = c /\ i # 96]

Ord(c) == OrdOf[c]

\* chr(n); no value where no string holds the character
Chr(n) == CASE n \in 1..255 /\ n # 96 -> CharAt(Latin1, n)

\* str.isspace(): the characters str.strip() and int() remove
Whitespace ==
    {"\t", "\n", "", "\f", "\r", "", "", "", "", " ", "", " ", " "}

\* str.strip(): leading and trailing whitespace removed.
RECURSIVE LStrip(_)
LStrip(s) ==
    IF s # "" /\ CharAt(s, 1) \in Whitespace
    THEN LStrip(SubSeq(s, 2, Len(s)))
    ELSE s

RECURSIVE RStrip(_)
RStrip(s) ==
    IF s # "" /\ CharAt(s, Len(s)) \in Whitespace
    THEN RStrip(SubSeq(s, 1, Len(s) - 1))
    ELSE s

Strip(s) == RStrip(LStrip(s))

\* str.lower(): the characters that have a lower-case form of their own,
\* and that form, position by position.
Upper ==
    "ABCDEFGHIJKLMNOPQRSTUVWXYZÀÁÂÃÄÅÆÇÈÉÊËÌÍÎÏÐÑÒÓÔÕ"
    \o "ÖØÙÚÛÜÝÞƂƄƇƋƎƑƘƠƢƤƦƧƩƬƮƯƱƲƳƵƷƸƼǄǅǇǈǊǋǍǏǑǓǕǗǙǛǞǠǢ"
    \o "ǤǦǨǪǬǮǱǲǴǶǷǸǺǼǾΆΈΉΊΌΎΏΑΒΓΔΕΖΗΘΙΚΛΜΝΞΟΠΡΤΥΦΧΨΩΪΫϏ"
    \o "ϘϚϜϞϠϢϤϦϨϪϬϮϴϷϹϺҀҊҌҎҐҒҔҖҘҚҜҞҠҢҤҦҨҪҬҮҰҲҴҶҸҺҼҾӀӁӃӅ"
    \o "ӇӉӋӍӐӒӔӖӘӚӜӞӠӢӤӦӨӪӬӮӰӲӴӶӸӺӼӾᎰᎱᎲᎳᎴᎵᎶᎷᎸᎹᎺᎻᎼᎽᎾᎿᏀᏁᏂᏃ"
    \o "ᏄᏅᏆᏇᏈᏉᏊᏋᏌᏍᏎᏏᏐᏑᏒᏓᏔᏕᏖᏗᏘᏙᏚᏛᏜᏝᏞᏟᏠᏡᏢᏣᏤᏥᏦᏧᏨᏩᏪᏫᏬᏭᏮᏯᏰᏱᏲᏳ"
    \o "ᏴᏵᲐᲑᲒᲓᲔᲕᲖᲗᲘᲙᲚᲛᲜᲝᲞᲟᲠᲡᲢᲣᲤᲥᲦᲧᲨᲩᲪᲫᲬᲭᲮᲯᲰᲱᲲᲳᲴᲵᲶᲷᲸᲹᲺᲽᲾᲿ"
    \o "ẀẂẄẆẈẊẌẎẐẒẔẞẠẢẤẦẨẪẬẮẰẲẴẶẸẺẼẾỀỂỄỆỈỊỌỎỐỒỔỖỘỚỜỞỠỢỤỦ"
    \o "ỨỪỬỮỰỲỴỶỸỺỼỾᾈᾉᾊᾋᾌᾍᾎᾏᾘᾙᾚᾛᾜᾝᾞᾟᾨᾩᾪᾫᾬᾭᾮᾯᾸᾹᾼῌῘῙῨῩῬῼↃⒶ"
    \o "ⒷⒸⒹⒺⒻⒼⒽⒾⒿⓀⓁⓂⓃⓄⓅⓆⓇⓈⓉⓊⓋⓌⓍⓎⓏⲀⲂⲄⲆⲈⲊⲌⲎⲐⲒⲔⲖⲘⲚⲜⲞⲠⲢⲤⲦⲨⲪⲬ"
    \o "ⲮⲰⲲⲴⲶⲸⲺⲼⲾⳀⳂⳄⳆⳈⳊⳌⳎⳐⳒⳔⳖⳘⳚⳜⳞⳠⳢⳫⳭⳲꚀꚂꚄꚆꚈꚊꚌꚎꚐꚒꚔꚖꚘꚚꞀꞂꞄꞆ"
    \o "ꞋꞐꞒꞖꞘꞚꞜꞞꞠꞢꞤꞦꞨꞰꞱꞲꞴꞶꞸꞺꞼꞾꟀꟂꟄꟅꟆꟇꟉꟐꟖꟘꟵ"

LowerLetters ==
    "abcdefghijklmnopqrstuvwxyzàáâãäåæçèéêëìíîïðñòóôõ"
    \o "öøùúûüýþƃƅƈƌǝƒƙơƣƥʀƨʃƭʈưʊʋƴƶʒƹƽǆǆǉǉǌǌǎǐǒǔǖǘǚǜǟǡǣ"
    \o "ǥǧǩǫǭǯǳǳǵƕƿǹǻǽǿάέήίόύώαβγδεζηθικλμνξοπρτυφχψωϊϋϗ"
    \o "ϙϛϝϟϡϣϥϧϩϫϭϯθϸϲϻҁҋҍҏґғҕҗҙқҝҟҡңҥҧҩҫҭүұҳҵҷҹһҽҿӏӂӄӆ"
    \o "ӈӊӌӎӑӓӕӗәӛӝӟӡӣӥӧөӫӭӯӱӳӵӷӹӻӽӿꮀꮁꮂꮃꮄꮅꮆꮇꮈꮉꮊꮋꮌꮍꮎꮏꮐꮑꮒꮓ"
    \o "ꮔꮕꮖꮗꮘꮙꮚꮛꮜꮝꮞꮟꮠꮡꮢꮣꮤꮥꮦꮧꮨꮩꮪꮫꮬꮭꮮꮯꮰꮱꮲꮳꮴꮵꮶꮷꮸꮹꮺꮻꮼꮽꮾꮿᏸᏹᏺᏻ"
    \o "ᏼᏽაბგდევზთიკლმნოპჟრსტუფქღყშჩცძწჭხჯჰჱჲჳჴჵჶჷჸჹჺჽჾჿ"
    \o "ẁẃẅẇẉẋẍẏẑẓẕßạảấầẩẫậắằẳẵặẹẻẽếềểễệỉịọỏốồổỗộớờởỡợụủ"
    \o "ứừửữựỳỵỷỹỻỽỿᾀᾁᾂᾃᾄᾅᾆᾇᾐᾑᾒᾓᾔᾕᾖᾗᾠᾡᾢᾣᾤᾥᾦᾧᾰᾱᾳῃῐῑῠῡῥῳↄⓐ"
    \o "ⓑⓒⓓⓔⓕⓖⓗⓘⓙⓚⓛⓜⓝⓞⓟⓠⓡⓢⓣⓤⓥⓦⓧⓨⓩⲁⲃⲅⲇⲉⲋⲍⲏⲑⲓⲕⲗⲙⲛⲝⲟⲡⲣⲥⲧⲩⲫⲭ"
    \o "ⲯⲱⲳⲵⲷⲹⲻⲽⲿⳁⳃⳅⳇⳉⳋⳍⳏⳑⳓⳕⳗⳙⳛⳝⳟⳡⳣⳬⳮⳳꚁꚃꚅꚇꚉꚋꚍꚏꚑꚓꚕꚗꚙꚛꞁꞃꞅꞇ"
    \o "ꞌꞑꞓꞗꞙꞛꞝꞟꞡꞣꞥꞧꞩʞʇʝꞵꞷꞹꞻꞽꞿꟁꟃꞔʂᶎꟈꟊꟑꟗꟙꟶ"

\* characters whose lower-case form no string of the model holds, or depends
\* on the characters around it (the capital sigma)
LowerUnheld ==
    {"Ɓ", "Ɔ", "Ɖ", "Ɗ", "Ə", "Ɛ", "Ɠ", "Ɣ", "Ɩ", "Ɨ", "Ɯ", "Ɲ", "Ɵ", "Σ", "Ͻ", "Ͼ", "Ͽ", "Ⴀ", "Ⴁ",
     "Ⴂ", "Ⴃ", "Ⴄ", "Ⴅ", "Ⴆ", "Ⴇ", "Ⴈ", "Ⴉ", "Ⴊ", "Ⴋ", "Ⴌ", "Ⴍ", "Ⴎ", "Ⴏ", "Ⴐ", "Ⴑ", "Ⴒ", "Ⴓ", "Ⴔ",
     "Ⴕ", "Ⴖ", "Ⴗ", "Ⴘ", "Ⴙ", "Ⴚ", "Ⴛ", "Ⴜ", "Ⴝ", "Ⴞ", "Ⴟ", "Ⴠ", "Ⴡ", "Ⴢ", "Ⴣ", "Ⴤ", "Ⴥ", "Ⴧ", "Ⴭ",
     "Ꭰ", "Ꭱ", "Ꭲ", "Ꭳ", "Ꭴ", "Ꭵ", "Ꭶ", "Ꭷ", "Ꭸ", "Ꭹ", "Ꭺ", "Ꭻ", "Ꭼ", "Ꭽ", "Ꭾ", "Ꭿ", "Ὰ", "Ά", "Ὲ",
     "Έ", "Ὴ", "Ή", "Ὶ", "Ί", "Ὺ", "Ύ", "Ὸ", "Ό", "Ὼ", "Ώ", "Ɥ", "Ɦ", "Ɜ", "Ɡ", "Ɬ", "Ɪ", "Ꭓ"}

LowerOf ==
    [c \in {CharAt(Upper, i) : i \in 1..Len(Upper)} |->
        CharAt(LowerLetters, CHOOSE i \in 1..Len(Upper) : CharAt(Upper, i) = c)]

LowerChar(c) ==
    CASE c \in DOMAIN LowerOf -> LowerOf[c]
      [] c \notin DOMAIN LowerOf /\ c \notin LowerUnheld -> c

\* str.lower()
RECURSIVE Lower(_)
Lower(s) ==
    IF s = "" THEN ""
    ELSE LowerChar(CharAt(s, 1)) \o Lower(SubSeq(s, 2, Len(s)))

\* `k in text` for strings: k occurs as a substring.
Contains(text, k) ==
    \E i \in 1..(Len(text) - Len(k) + 1) : SubSeq(text, i, i + Len(k) - 1) = k

\* any(k in text for k in keys)
AnyIn(text, keys) == \E k \in keys : Contains(text, k)

\* s[:n] of a string or a list: the first n items, all but the last -n for
\* a negative n
Prefix(s, n) ==
    SubSeq(s, 1, IF n < 0 THEN Len(s) + n ELSE IF Len(s) < n THEN Len(s) ELSE n)

----------------------------------------------------------------------------
(* The external text-generation service.  A world of one call:             *)
(*   key       OPENAI_API_KEY in the environment (Optional[str])           *)
(*   lib       whether `import openai` succeeded                           *)
(*   outcome   what the chat-completion call does: "raise" (network error, *)
(*             malformed response: any Exception) or "content"             *)
(*   content   the message content of the response (Optional[str])        *)

PromptLimit == 4000

LlmCall(world, prompt) ==
    \* try: ... return resp.choices[0].message.content.strip()
    \* except Exception: return None   (None.strip() raises AttributeError)
    IF world.outcome = "raise" \/ world.content = None
    THEN None
    ELSE Some(Strip(world.content[1]))

llm_summarize(world, text) ==
    IF ~Truthy(world.key) \/ ~world.lib
    THEN None
    ELSE LlmCall(world, Prefix(text, PromptLimit))

llm_drawback(world, text, src) ==
    IF ~Truthy(world.key) \/ ~world.lib
    THEN None
    ELSE LlmCall(world, "Vendor: " \o OrElse(src, "Unknown") \o "\n\n" \o Prefix(text, PromptLimit))

\* Whether a call in this world opens a network connection.
LlmConnects(world) == Truthy(world.key) /\ world.lib

----------------------------------------------------------------------------
(* The drawback annotator *)

VendorNames ==
    {"Databricks", "Snowflake", "Microsoft", "Salesforce", "Sigma Computing",
     "Qlik", "Looker", "Google"}

VENDOR_WEAKNESSES(v) ==
    CASE v = "Databricks" -> "Databricks Genie emphasizes data engineering but lacks ThoughtSpot's live search-driven analytics."
      [] v = "Snowflake" -> "Snowflake Cortex targets developers and misses ThoughtSpot's easy natural language queries."
      [] v = "Microsoft" -> "Power BI and Copilot tie insights to predefined models, unlike ThoughtSpot's flexible search-first UX."
      [] v = "Salesforce" -> "Tableau dashboards require curation whereas ThoughtSpot enables ad-hoc natural language exploration."
      [] v = "Sigma Computing" -> "Sigma delivers spreadsheet-style analytics but fewer governed search features than ThoughtSpot."
      [] v = "Qlik" -> "Qlik's script-heavy approach complicates setup compared to ThoughtSpot's intuitive search."
      [] v = "Looker" -> "Looker and Gemini depend on LookML modeling while ThoughtSpot queries data directly."
      [] v = "Google" -> "Google's BI stack is less search-centric than ThoughtSpot's AI-driven analytics."

SecurityHint == "Security and compliance risks remain, an area where ThoughtSpot stresses governance."

PricingHint == "Pricing could be a concern compared with ThoughtSpot's consumption model."

ComplexityHint == "Complexity may slow adoption versus ThoughtSpot's ease of use."

IntegrationHint == "Integration effort could be higher than ThoughtSpot's straightforward connectivity."

PerformanceHint == "Performance limitations might impede real-time insight, unlike ThoughtSpot's speed."

GenericDrawback == "Consider cost, adoption effort, and governance implications."

\* Variant: the integration group is tried before the pricing group.
extract_drawback_hint_reordered(text) ==
    LET lower == Lower(text) IN
    IF AnyIn(lower, {"security", "breach", "privacy", "compliance"})
    THEN Some(SecurityHint)
    ELSE IF AnyIn(lower, {"integration", "migration", "silo"})
    THEN Some(IntegrationHint)
    ELSE IF AnyIn(lower, {"cost", "pricing", "expensive"})
    THEN Some(PricingHint)
    ELSE IF AnyIn(lower, {"complex", "complicated", "learning curve", "training"})
    THEN Some(ComplexityHint)
    ELSE IF AnyIn(lower, {"performance", "latency", "slow"})
    THEN Some(PerformanceHint)
    ELSE None

extract_drawback_hint(text) ==
    LET lower == Lower(text) IN
    IF AnyIn(lower, {"security", "breach", "privacy", "compliance"})
    THEN Some(SecurityHint)
    ELSE IF AnyIn(lower, {"cost", "pricing", "expensive"})
    THEN Some(PricingHint)
    ELSE IF AnyIn(lower, {"complex", "complicated", "learning curve", "training"})
    THEN Some(ComplexityHint)
    ELSE IF AnyIn(lower, {"integration", "migration", "silo"})
    THEN Some(IntegrationHint)
    ELSE IF AnyIn(lower, {"performance", "latency", "slow"})
    THEN Some(PerformanceHint)
    ELSE None

\* Variant: the keyword hint is tried before the vendor table.
RuleDrawbackHintFirst(hint, src) ==
    IF Truthy(hint)
    THEN hint[1]
    ELSE IF Truthy(src) /\ src[1] \in VendorNames
    THEN VENDOR_WEAKNESSES(src[1])
    ELSE GenericDrawback

\* The tiers of suggest_drawback below the external call.
RuleDrawback(hint, src) ==
    IF Truthy(src) /\ src[1] \in VendorNames
    THEN IF Truthy(hint)
         THEN VENDOR_WEAKNESSES(src[1]) \o " " \o hint[1]
         ELSE VENDOR_WEAKNESSES(src[1])
    ELSE IF Truthy(hint)
    THEN hint[1]
    ELSE GenericDrawback

\* combined = f"{title} {summary or ''}".strip()
Combined(ttl, summ) == Strip(ttl \o " " \o OrElse(summ, ""))

\* Variant: `if llm is not None` in place of `if llm`, so that an empty
\* response is returned as the drawback.
suggest_drawback_not_none(world, ttl, summ, src) ==
    LET combined == Combined(ttl, summ)
        llm == llm_drawback(world, combined, src)
    IN  IF llm # None
        THEN llm[1]
        ELSE RuleDrawback(extract_drawback_hint(combined), src)

suggest_drawback(world, ttl, summ, src) ==
    LET combined == Combined(ttl, summ)
        llm == llm_drawback(world, combined, src)
    IN  IF Truthy(llm)
        THEN llm[1]
        ELSE RuleDrawback(extract_drawback_hint(combined), src)

----------------------------------------------------------------------------
(* The summarizer.  A feed entry is described by what entry.get returns:   *)
(*   summary, description   Optional[str]                                  *)
(*   content                the sequence of the content blocks' values     *)
(*                          (Optional[str] each)                           *)

\* re.sub(r"<[^>]+>", "", text): a tag is "<", one or more characters other
\* than ">", then ">"; matches are taken leftmost, and removed.
TagEnd(text, i) ==
    \* the index of the first ">" after position i, or 0
    IF \E j \in (i + 1)..Len(text) : CharAt(text, j) = ">"
    THEN CHOOSE j \in (i + 1)..Len(text) :
            /\ CharAt(text, j) = ">"
            /\ \A k \in (i + 1)..(j - 1) : CharAt(text, k) # ">"
    ELSE 0

RECURSIVE StripTags(_)
StripTags(text) ==
    IF text = "" THEN ""
    ELSE IF CharAt(text, 1) = "<" /\ TagEnd(text, 1) > 2
    THEN StripTags(SubSeq(text, TagEnd(text, 1) + 1, Len(text)))
    ELSE CharAt(text, 1) \o StripTags(SubSeq(text, 2, Len(text)))

\* html.unescape.  html5: the named character references of
\* html.entities.html5 (with and without their semicolon, as the table has
\* them) and their characters.
Html5 ==
    {<<"AElig", "Æ">>, <<"AElig;", "Æ">>, <<"AMP", "&">>, <<"AMP;", "&">>, <<"Aacute", "Á">>,
     <<"Aacute;", "Á">>, <<"Acirc", "Â">>, <<"Acirc;", "Â">>, <<"Agrave", "À">>, <<"Agrave;", "À">>,
     <<"Alpha;", "Α">>, <<"Aring", "Å">>, <<"Aring;", "Å">>, <<"Atilde", "Ã">>, <<"Atilde;", "Ã">>,
     <<"Auml", "Ä">>, <<"Auml;", "Ä">>, <<"Barv;", "⫧">>, <<"Beta;", "Β">>, <<"Breve;", "˘">>,
     <<"COPY", "©">>, <<"COPY;", "©">>, <<"Cap;", "⋒">>, <<"Ccedil", "Ç">>, <<"Ccedil;", "Ç">>,
     <<"Cedilla;", "¸">>, <<"CenterDot;", "·">>, <<"Chi;", "Χ">>, <<"CircleDot;", "⊙">>,
     <<"CircleMinus;", "⊖">>, <<"CirclePlus;", "⊕">>, <<"CircleTimes;", "⊗">>, <<"Cup;", "⋓">>,
     <<"Darr;", "↡">>, <<"Dashv;", "⫤">>, <<"Delta;", "Δ">>, <<"DiacriticalAcute;", "´">>,
     <<"DiacriticalDot;", "˙">>, <<"DiacriticalDoubleAcute;", "˝">>, <<"DiacriticalTilde;", "˜">>,
     <<"Diamond;", "⋄">>, <<"Dot;", "¨">>, <<"DotDot;", "⃜">>, <<"DoubleDot;", "¨">>,
     <<"DoubleDownArrow;", "⇓">>, <<"DoubleLeftArrow;", "⇐">>, <<"DoubleLeftRightArrow;", "⇔">>,
     <<"DoubleLeftTee;", "⫤">>, <<"DoubleLongLeftArrow;", "⟸">>,
     <<"DoubleLongLeftRightArrow;", "⟺">>, <<"DoubleLongRightArrow;", "⟹">>,
     <<"DoubleRightArrow;", "⇒">>, <<"DoubleRightTee;", "⊨">>, <<"DoubleUpArrow;", "⇑">>,
     <<"DoubleUpDownArrow;", "⇕">>, <<"DownArrow;", "↓">>, <<"DownArrowUpArrow;", "⇵">>,
     <<"DownLeftVector;", "↽">>, <<"DownRightVector;", "⇁">>, <<"DownTee;", "⊤">>,
     <<"DownTeeArrow;", "↧">>, <<"Downarrow;", "⇓">>, <<"ETH", "Ð">>, <<"ETH;", "Ð">>,
     <<"Eacute", "É">>, <<"Eacute;", "É">>, <<"Ecirc", "Ê">>, <<"Ecirc;", "Ê">>, <<"Egrave", "È">>,
     <<"Egrave;", "È">>, <<"EmptySmallSquare;", "◻">>, <<"EmptyVerySmallSquare;", "▫">>,
     <<"Epsilon;", "Ε">>, <<"Equilibrium;", "⇌">>, <<"Eta;", "Η">>, <<"Euml", "Ë">>,
     <<"Euml;", "Ë">>, <<"FilledSmallSquare;", "◼">>, <<"FilledVerySmallSquare;", "▪">>,
     <<"GT", ">">>, <<"GT;", ">">>, <<"Gamma;", "Γ">>, <<"Gammad;", "Ϝ">>, <<"Gg;", "⋙">>,
     <<"GreaterEqualLess;", "⋛">>, <<"GreaterGreater;", "⪢">>, <<"Hacek;", "ˇ">>, <<"Hat;", "^">>,
     <<"Iacute", "Í">>, <<"Iacute;", "Í">>, <<"Icirc", "Î">>, <<"Icirc;", "Î">>, <<"Igrave", "Ì">>,
     <<"Igrave;", "Ì">>, <<"Implies;", "⇒">>, <<"Intersection;", "⋂">>, <<"Iota;", "Ι">>,
     <<"Iuml", "Ï">>, <<"Iuml;", "Ï">>, <<"Kappa;", "Κ">>, <<"LT", "<">>, <<"LT;", "<">>,
     <<"Lambda;", "Λ">>, <<"Lang;", "⟪">>, <<"Larr;", "↞">>, <<"LeftAngleBracket;", "⟨">>,
     <<"LeftArrow;", "←">>, <<"LeftArrowBar;", "⇤">>, <<"LeftArrowRightArrow;", "⇆">>,
     <<"LeftDoubleBracket;", "⟦">>, <<"LeftDownVector;", "⇃">>, <<"LeftRightArrow;", "↔">>,
     <<"LeftTee;", "⊣">>, <<"LeftTeeArrow;", "↤">>, <<"LeftTriangle;", "⊲">>,
     <<"LeftTriangleBar;", "⧏">>, <<"LeftTriangleEqual;", "⊴">>, <<"LeftUpVector;", "↿">>,
     <<"LeftVector;", "↼">>, <<"Leftarrow;", "⇐">>, <<"Leftrightarrow;", "⇔">>,
     <<"LessEqualGreater;", "⋚">>, <<"LessLess;", "⪡">>, <<"Ll;", "⋘">>, <<"Lleftarrow;", "⇚">>,
     <<"LongLeftArrow;", "⟵">>, <<"LongLeftRightArrow;", "⟷">>, <<"LongRightArrow;", "⟶">>,
     <<"Longleftarrow;", "⟸">>, <<"Longleftrightarrow;", "⟺">>, <<"Longrightarrow;", "⟹">>,
     <<"LowerLeftArrow;", "↙">>, <<"LowerRightArrow;", "↘">>, <<"Lsh;", "↰">>, <<"Mu;", "Μ">>,
     <<"NewLine;", "\n">>, <<"NonBreakingSpace;", " ">>, <<"Not;", "⫬">>,
     <<"NotLeftTriangle;", "⋪">>, <<"NotLeftTriangleEqual;", "⋬">>, <<"NotPrecedes;", "⊀">>,
     <<"NotPrecedesSlantEqual;", "⋠">>, <<"NotRightTriangle;", "⋫">>,
     <<"NotRightTriangleEqual;", "⋭">>, <<"NotSquareSubsetEqual;", "⋢">>,
     <<"NotSquareSupersetEqual;", "⋣">>, <<"NotSubset;", "⊂⃒">>, <<"NotSubsetEqual;", "⊈">>,
     <<"NotSucceeds;", "⊁">>, <<"NotSucceedsSlantEqual;", "⋡">>, <<"NotSuperset;", "⊃⃒">>,
     <<"NotSupersetEqual;", "⊉">>, <<"Ntilde", "Ñ">>, <<"Ntilde;", "Ñ">>, <<"Nu;", "Ν">>,
     <<"Oacute", "Ó">>, <<"Oacute;", "Ó">>, <<"Ocirc", "Ô">>, <<"Ocirc;", "Ô">>, <<"Ograve", "Ò">>,
     <<"Ograve;", "Ò">>, <<"Omega;", "Ω">>, <<"Omicron;", "Ο">>, <<"Oslash", "Ø">>,
     <<"Oslash;", "Ø">>, <<"Otilde", "Õ">>, <<"Otilde;", "Õ">>, <<"Ouml", "Ö">>, <<"Ouml;", "Ö">>,
     <<"OverBrace;", "⏞">>, <<"OverBracket;", "⎴">>, <<"OverParenthesis;", "⏜">>, <<"Phi;", "Φ">>,
     <<"Pi;", "Π">>, <<"PlusMinus;", "±">>, <<"Pr;", "⪻">>, <<"PrecedesEqual;", "⪯">>,
     <<"Psi;", "Ψ">>, <<"QUOT", "\"">>, <<"QUOT;", "\"">>, <<"REG", "®">>, <<"REG;", "®">>,
     <<"Rang;", "⟫">>, <<"Rarr;", "↠">>, <<"ReverseEquilibrium;", "⇋">>, <<"Rho;", "Ρ">>,
     <<"RightAngleBracket;", "⟩">>, <<"RightArrow;", "→">>, <<"RightArrowBar;", "⇥">>,
     <<"RightArrowLeftArrow;", "⇄">>, <<"RightDoubleBracket;", "⟧">>, <<"RightDownVector;", "⇂">>,
     <<"RightTee;", "⊢">>, <<"RightTeeArrow;", "↦">>, <<"RightTriangle;", "⊳">>,
     <<"RightTriangleBar;", "⧐">>, <<"RightTriangleEqual;", "⊵">>, <<"RightUpVector;", "↾">>,
     <<"RightVector;", "⇀">>, <<"Rightarrow;", "⇒">>, <<"Rrightarrow;", "⇛">>, <<"Rsh;", "↱">>,
     <<"RuleDelayed;", "⧴">>, <<"Sc;", "⪼">>, <<"ShortDownArrow;", "↓">>,
     <<"ShortLeftArrow;", "←">>, <<"ShortRightArrow;", "→">>, <<"ShortUpArrow;", "↑">>,
     <<"Sigma;", "Σ">>, <<"Square;", "□">>, <<"SquareIntersection;", "⊓">>,
     <<"SquareSubset;", "⊏">>, <<"SquareSubsetEqual;", "⊑">>, <<"SquareSuperset;", "⊐">>,
     <<"SquareSupersetEqual;", "⊒">>, <<"SquareUnion;", "⊔">>, <<"Star;", "⋆">>, <<"Sub;", "⋐">>,
     <<"Subset;", "⋐">>, <<"SubsetEqual;", "⊆">>, <<"SucceedsEqual;", "⪰">>, <<"Sup;", "⋑">>,
     <<"Superset;", "⊃">>, <<"SupersetEqual;", "⊇">>, <<"Supset;", "⋑">>, <<"THORN", "Þ">>,
     <<"THORN;", "Þ">>, <<"Tab;", "\t">>, <<"Tau;", "Τ">>, <<"Theta;", "Θ">>, <<"TripleDot;", "⃛">>,
     <<"Uacute", "Ú">>, <<"Uacute;", "Ú">>, <<"Uarr;", "↟">>, <<"Ucirc", "Û">>, <<"Ucirc;", "Û">>,
     <<"Ugrave", "Ù">>, <<"Ugrave;", "Ù">>, <<"UnderBar;", "_">>, <<"UnderBrace;", "⏟">>,
     <<"UnderBracket;", "⎵">>, <<"UnderParenthesis;", "⏝">>, <<"Union;", "⋃">>,
     <<"UnionPlus;", "⊎">>, <<"UpArrow;", "↑">>, <<"UpArrowDownArrow;", "⇅">>,
     <<"UpDownArrow;", "↕">>, <<"UpTee;", "⊥">>, <<"UpTeeArrow;", "↥">>, <<"Uparrow;", "⇑">>,
     <<"Updownarrow;", "⇕">>, <<"UpperLeftArrow;", "↖">>, <<"UpperRightArrow;", "↗">>,
     <<"Upsi;", "ϒ">>, <<"Upsilon;", "Υ">>, <<"Uuml", "Ü">>, <<"Uuml;", "Ü">>, <<"VDash;", "⊫">>,
     <<"Vbar;", "⫫">>, <<"Vdash;", "⊩">>, <<"Vdashl;", "⫦">>, <<"Vee;", "⋁">>,
     <<"VerticalLine;", "|">>, <<"Vvdash;", "⊪">>, <<"Wedge;", "⋀">>, <<"Xi;", "Ξ">>,
     <<"Yacute", "Ý">>, <<"Yacute;", "Ý">>, <<"Zeta;", "Ζ">>, <<"aacute", "á">>, <<"aacute;", "á">>,
     <<"acirc", "â">>, <<"acirc;", "â">>, <<"acute", "´">>, <<"acute;", "´">>, <<"aelig", "æ">>,
     <<"aelig;", "æ">>, <<"agrave", "à">>, <<"agrave;", "à">>, <<"alpha;", "α">>, <<"amp", "&">>,
     <<"amp;", "&">>, <<"ange;", "⦤">>, <<"angmsdaa;", "⦨">>, <<"angmsdab;", "⦩">>,
     <<"angmsdac;", "⦪">>, <<"angmsdad;", "⦫">>, <<"angmsdae;", "⦬">>, <<"angmsdaf;", "⦭">>,
     <<"angmsdag;", "⦮">>, <<"angmsdah;", "⦯">>, <<"angrtvb;", "⊾">>, <<"angrtvbd;", "⦝">>,
     <<"angst;", "Å">>, <<"apos;", "'">>, <<"aring", "å">>, <<"aring;", "å">>, <<"ast;", "*">>,
     <<"atilde", "ã">>, <<"atilde;", "ã">>, <<"auml", "ä">>, <<"auml;", "ä">>, <<"bNot;", "⫭">>,
     <<"backepsilon;", "϶">>, <<"backsimeq;", "⋍">>, <<"barvee;", "⊽">>, <<"bbrk;", "⎵">>,
     <<"bbrktbrk;", "⎶">>, <<"bemptyv;", "⦰">>, <<"bepsi;", "϶">>, <<"beta;", "β">>,
     <<"bigcap;", "⋂">>, <<"bigcirc;", "◯">>, <<"bigcup;", "⋃">>, <<"bigtriangledown;", "▽">>,
     <<"bigtriangleup;", "△">>, <<"bigvee;", "⋁">>, <<"bigwedge;", "⋀">>, <<"blacklozenge;", "⧫">>,
     <<"blacksquare;", "▪">>, <<"blacktriangle;", "▴">>, <<"blacktriangledown;", "▾">>,
     <<"blacktriangleleft;", "◂">>, <<"blacktriangleright;", "▸">>, <<"blk12;", "▒">>,
     <<"blk14;", "░">>, <<"blk34;", "▓">>, <<"block;", "█">>, <<"bne;", "=⃥">>, <<"bot;", "⊥">>,
     <<"bottom;", "⊥">>, <<"bowtie;", "⋈">>, <<"boxbox;", "⧉">>, <<"boxminus;", "⊟">>,
     <<"boxplus;", "⊞">>, <<"boxtimes;", "⊠">>, <<"breve;", "˘">>, <<"brvbar", "¦">>,
     <<"brvbar;", "¦">>, <<"bsime;", "⋍">>, <<"bsol;", "\\">>, <<"bsolb;", "⧅">>,
     <<"bsolhsub;", "⟈">>, <<"bumpE;", "⪮">>, <<"caron;", "ˇ">>, <<"ccedil", "ç">>,
     <<"ccedil;", "ç">>, <<"cedil", "¸">>, <<"cedil;", "¸">>, <<"cemptyv;", "⦲">>, <<"cent", "¢">>,
     <<"cent;", "¢">>, <<"centerdot;", "·">>, <<"chi;", "χ">>, <<"cir;", "○">>, <<"cirE;", "⧃">>,
     <<"circ;", "ˆ">>, <<"circlearrowleft;", "↺">>, <<"circlearrowright;", "↻">>,
     <<"circledR;", "®">>, <<"circledS;", "Ⓢ">>, <<"circledast;", "⊛">>, <<"circledcirc;", "⊚">>,
     <<"circleddash;", "⊝">>, <<"cirmid;", "⫯">>, <<"cirscir;", "⧂">>, <<"colon;", ":">>,
     <<"comma;", ",">>, <<"commat;", "@">>, <<"copy", "©">>, <<"copy;", "©">>, <<"crarr;", "↵">>,
     <<"csub;", "⫏">>, <<"csube;", "⫑">>, <<"csup;", "⫐">>, <<"csupe;", "⫒">>, <<"ctdot;", "⋯">>,
     <<"cuepr;", "⋞">>, <<"cuesc;", "⋟">>, <<"cularr;", "↶">>, <<"cupdot;", "⊍">>,
     <<"curarr;", "↷">>, <<"curlyeqprec;", "⋞">>, <<"curlyeqsucc;", "⋟">>, <<"curlyvee;", "⋎">>,
     <<"curlywedge;", "⋏">>, <<"curren", "¤">>, <<"curren;", "¤">>, <<"curvearrowleft;", "↶">>,
     <<"curvearrowright;", "↷">>, <<"cuvee;", "⋎">>, <<"cuwed;", "⋏">>, <<"dArr;", "⇓">>,
     <<"darr;", "↓">>, <<"dashv;", "⊣">>, <<"dblac;", "˝">>, <<"ddarr;", "⇊">>, <<"deg", "°">>,
     <<"deg;", "°">>, <<"delta;", "δ">>, <<"demptyv;", "⦱">>, <<"dharl;", "⇃">>, <<"dharr;", "⇂">>,
     <<"diam;", "⋄">>, <<"diamond;", "⋄">>, <<"die;", "¨">>, <<"digamma;", "ϝ">>, <<"disin;", "⋲">>,
     <<"div;", "÷">>, <<"divide", "÷">>, <<"divide;", "÷">>, <<"divideontimes;", "⋇">>,
     <<"divonx;", "⋇">>, <<"dollar;", "$">>, <<"dot;", "˙">>, <<"dotsquare;", "⊡">>,
     <<"downarrow;", "↓">>, <<"downdownarrows;", "⇊">>, <<"downharpoonleft;", "⇃">>,
     <<"downharpoonright;", "⇂">>, <<"dsol;", "⧶">>, <<"dtdot;", "⋱">>, <<"dtri;", "▿">>,
     <<"dtrif;", "▾">>, <<"duarr;", "⇵">>, <<"dwangle;", "⦦">>, <<"dzigrarr;", "⟿">>,
     <<"eacute", "é">>, <<"eacute;", "é">>, <<"ecirc", "ê">>, <<"ecirc;", "ê">>, <<"eg;", "⪚">>,
     <<"egrave", "è">>, <<"egrave;", "è">>, <<"egs;", "⪖">>, <<"egsdot;", "⪘">>, <<"el;", "⪙">>,
     <<"elinters;", "⏧">>, <<"els;", "⪕">>, <<"elsdot;", "⪗">>, <<"epar;", "⋕">>,
     <<"eparsl;", "⧣">>, <<"epsi;", "ε">>, <<"epsilon;", "ε">>, <<"epsiv;", "ϵ">>,
     <<"eqslantgtr;", "⪖">>, <<"eqslantless;", "⪕">>, <<"equals;", "=">>, <<"eqvparsl;", "⧥">>,
     <<"eta;", "η">>, <<"eth", "ð">>, <<"eth;", "ð">>, <<"euml", "ë">>, <<"euml;", "ë">>,
     <<"euro;", "€">>, <<"excl;", "!">>, <<"fjlig;", "fj">>, <<"fltns;", "▱">>, <<"fnof;", "ƒ">>,
     <<"fork;", "⋔">>, <<"forkv;", "⫙">>, <<"frac12", "½">>, <<"frac12;", "½">>, <<"frac14", "¼">>,
     <<"frac14;", "¼">>, <<"frac34", "¾">>, <<"frac34;", "¾">>, <<"gEl;", "⪌">>, <<"gacute;", "ǵ">>,
     <<"gamma;", "γ">>, <<"gammad;", "ϝ">>, <<"gap;", "⪆">>, <<"gel;", "⋛">>, <<"gescc;", "⪩">>,
     <<"gesdot;", "⪀">>, <<"gesdoto;", "⪂">>, <<"gesdotol;", "⪄">>, <<"gesles;", "⪔">>,
     <<"ggg;", "⋙">>, <<"glE;", "⪒">>, <<"gla;", "⪥">>, <<"glj;", "⪤">>, <<"gnap;", "⪊">>,
     <<"gnapprox;", "⪊">>, <<"gne;", "⪈">>, <<"gneq;", "⪈">>, <<"gnsim;", "⋧">>, <<"gsime;", "⪎">>,
     <<"gsiml;", "⪐">>, <<"gt", ">">>, <<"gt;", ">">>, <<"gtcc;", "⪧">>, <<"gtdot;", "⋗">>,
     <<"gtlPar;", "⦕">>, <<"gtrapprox;", "⪆">>, <<"gtrdot;", "⋗">>, <<"gtreqless;", "⋛">>,
     <<"gtreqqless;", "⪌">>, <<"hArr;", "⇔">>, <<"half;", "½">>, <<"harr;", "↔">>,
     <<"harrw;", "↭">>, <<"hercon;", "⊹">>, <<"hoarr;", "⇿">>, <<"hookleftarrow;", "↩">>,
     <<"hookrightarrow;", "↪">>, <<"iacute", "í">>, <<"iacute;", "í">>, <<"icirc", "î">>,
     <<"icirc;", "î">>, <<"iexcl", "¡">>, <<"iexcl;", "¡">>, <<"iff;", "⇔">>, <<"igrave", "ì">>,
     <<"igrave;", "ì">>, <<"iinfin;", "⧜">>, <<"imof;", "⊷">>, <<"imped;", "Ƶ">>,
     <<"infintie;", "⧝">>, <<"intcal;", "⊺">>, <<"intercal;", "⊺">>, <<"iota;", "ι">>,
     <<"iquest", "¿">>, <<"iquest;", "¿">>, <<"isinE;", "⋹">>, <<"isindot;", "⋵">>,
     <<"isins;", "⋴">>, <<"isinsv;", "⋳">>, <<"iuml", "ï">>, <<"iuml;", "ï">>, <<"kappa;", "κ">>,
     <<"kappav;", "ϰ">>, <<"lAarr;", "⇚">>, <<"lArr;", "⇐">>, <<"lEg;", "⪋">>, <<"laemptyv;", "⦴">>,
     <<"lambda;", "λ">>, <<"lang;", "⟨">>, <<"langd;", "⦑">>, <<"langle;", "⟨">>, <<"lap;", "⪅">>,
     <<"laquo", "«">>, <<"laquo;", "«">>, <<"larr;", "←">>, <<"larrb;", "⇤">>, <<"larrhk;", "↩">>,
     <<"larrlp;", "↫">>, <<"larrtl;", "↢">>, <<"lat;", "⪫">>, <<"late;", "⪭">>, <<"lbrace;", "{">>,
     <<"lbrack;", "[">>, <<"lbrke;", "⦋">>, <<"lbrksld;", "⦏">>, <<"lbrkslu;", "⦍">>,
     <<"lcub;", "{">>, <<"ldsh;", "↲">>, <<"leftarrow;", "←">>, <<"leftarrowtail;", "↢">>,
     <<"leftharpoondown;", "↽">>, <<"leftharpoonup;", "↼">>, <<"leftleftarrows;", "⇇">>,
     <<"leftrightarrow;", "↔">>, <<"leftrightarrows;", "⇆">>, <<"leftrightharpoons;", "⇋">>,
     <<"leftrightsquigarrow;", "↭">>, <<"leftthreetimes;", "⋋">>, <<"leg;", "⋚">>,
     <<"lescc;", "⪨">>, <<"lesdoto;", "⪁">>, <<"lesdotor;", "⪃">>, <<"lesges;", "⪓">>,
     <<"lessapprox;", "⪅">>, <<"lessdot;", "⋖">>, <<"lesseqgtr;", "⋚">>, <<"lesseqqgtr;", "⪋">>,
     <<"lgE;", "⪑">>, <<"lhard;", "↽">>, <<"lharu;", "↼">>, <<"lhblk;", "▄">>, <<"llarr;", "⇇">>,
     <<"lltri;", "◺">>, <<"lmoust;", "⎰">>, <<"lmoustache;", "⎰">>, <<"lnap;", "⪉">>,
     <<"lnapprox;", "⪉">>, <<"lne;", "⪇">>, <<"lneq;", "⪇">>, <<"lnsim;", "⋦">>, <<"loang;", "⟬">>,
     <<"loarr;", "⇽">>, <<"lobrk;", "⟦">>, <<"longleftarrow;", "⟵">>,
     <<"longleftrightarrow;", "⟷">>, <<"longmapsto;", "⟼">>, <<"longrightarrow;", "⟶">>,
     <<"looparrowleft;", "↫">>, <<"looparrowright;", "↬">>, <<"lopar;", "⦅">>, <<"lowbar;", "_">>,
     <<"loz;", "◊">>, <<"lozenge;", "◊">>, <<"lozf;", "⧫">>, <<"lpar;", "(">>, <<"lparlt;", "⦓">>,
     <<"lrarr;", "⇆">>, <<"lrhar;", "⇋">>, <<"lrtri;", "⊿">>, <<"lsh;", "↰">>, <<"lsime;", "⪍">>,
     <<"lsimg;", "⪏">>, <<"lsqb;", "[">>, <<"lt", "<">>, <<"lt;", "<">>, <<"ltcc;", "⪦">>,
     <<"ltdot;", "⋖">>, <<"lthree;", "⋋">>, <<"ltimes;", "⋉">>, <<"ltrPar;", "⦖">>,
     <<"ltri;", "◃">>, <<"ltrie;", "⊴">>, <<"ltrif;", "◂">>, <<"macr", "¯">>, <<"macr;", "¯">>,
     <<"map;", "↦">>, <<"mapsto;", "↦">>, <<"mapstodown;", "↧">>, <<"mapstoleft;", "↤">>,
     <<"mapstoup;", "↥">>, <<"marker;", "▮">>, <<"micro", "µ">>, <<"micro;", "µ">>,
     <<"midast;", "*">>, <<"midcir;", "⫰">>, <<"middot", "·">>, <<"middot;", "·">>,
     <<"minusb;", "⊟">>, <<"mlcp;", "⫛">>, <<"models;", "⊧">>, <<"mu;", "μ">>, <<"multimap;", "⊸">>,
     <<"mumap;", "⊸">>, <<"nLeftarrow;", "⇍">>, <<"nLeftrightarrow;", "⇎">>,
     <<"nRightarrow;", "⇏">>, <<"nVDash;", "⊯">>, <<"nVdash;", "⊮">>, <<"nbsp", " ">>,
     <<"nbsp;", " ">>, <<"neArr;", "⇗">>, <<"nearr;", "↗">>, <<"nearrow;", "↗">>, <<"nhArr;", "⇎">>,
     <<"nharr;", "↮">>, <<"nhpar;", "⫲">>, <<"nis;", "⋼">>, <<"nisd;", "⋺">>, <<"nlArr;", "⇍">>,
     <<"nlarr;", "↚">>, <<"nleftarrow;", "↚">>, <<"nleftrightarrow;", "↮">>, <<"nltri;", "⋪">>,
     <<"nltrie;", "⋬">>, <<"not", "¬">>, <<"not;", "¬">>, <<"notinvb;", "⋷">>, <<"notinvc;", "⋶">>,
     <<"notnivb;", "⋾">>, <<"notnivc;", "⋽">>, <<"nparsl;", "⫽⃥">>, <<"npr;", "⊀">>,
     <<"nprcue;", "⋠">>, <<"nprec;", "⊀">>, <<"nrArr;", "⇏">>, <<"nrarr;", "↛">>,
     <<"nrightarrow;", "↛">>, <<"nrtri;", "⋫">>, <<"nrtrie;", "⋭">>, <<"nsc;", "⊁">>,
     <<"nsccue;", "⋡">>, <<"nsqsube;", "⋢">>, <<"nsqsupe;", "⋣">>, <<"nsub;", "⊄">>,
     <<"nsube;", "⊈">>, <<"nsubset;", "⊂⃒">>, <<"nsubseteq;", "⊈">>, <<"nsucc;", "⊁">>,
     <<"nsup;", "⊅">>, <<"nsupe;", "⊉">>, <<"nsupset;", "⊃⃒">>, <<"nsupseteq;", "⊉">>,
     <<"ntilde", "ñ">>, <<"ntilde;", "ñ">>, <<"ntriangleleft;", "⋪">>, <<"ntrianglelefteq;", "⋬">>,
     <<"ntriangleright;", "⋫">>, <<"ntrianglerighteq;", "⋭">>, <<"nu;", "ν">>, <<"num;", "#">>,
     <<"nvDash;", "⊭">>, <<"nvdash;", "⊬">>, <<"nvgt;", ">⃒">>, <<"nvinfin;", "⧞">>,
     <<"nvlt;", "<⃒">>, <<"nvltrie;", "⊴⃒">>, <<"nvrtrie;", "⊵⃒">>, <<"nwArr;", "⇖">>,
     <<"nwarr;", "↖">>, <<"nwarrow;", "↖">>, <<"oS;", "Ⓢ">>, <<"oacute", "ó">>, <<"oacute;", "ó">>,
     <<"oast;", "⊛">>, <<"ocir;", "⊚">>, <<"ocirc", "ô">>, <<"ocirc;", "ô">>, <<"odash;", "⊝">>,
     <<"odot;", "⊙">>, <<"odsold;", "⦼">>, <<"ofcir;", "⦿">>, <<"ogon;", "˛">>, <<"ograve", "ò">>,
     <<"ograve;", "ò">>, <<"ogt;", "⧁">>, <<"ohbar;", "⦵">>, <<"ohm;", "Ω">>, <<"olarr;", "↺">>,
     <<"olcir;", "⦾">>, <<"olcross;", "⦻">>, <<"olt;", "⧀">>, <<"omega;", "ω">>,
     <<"omicron;", "ο">>, <<"omid;", "⦶">>, <<"ominus;", "⊖">>, <<"opar;", "⦷">>, <<"operp;", "⦹">>,
     <<"oplus;", "⊕">>, <<"orarr;", "↻">>, <<"ordf", "ª">>, <<"ordf;", "ª">>, <<"ordm", "º">>,
     <<"ordm;", "º">>, <<"origof;", "⊶">>, <<"oslash", "ø">>, <<"oslash;", "ø">>, <<"osol;", "⊘">>,
     <<"otilde", "õ">>, <<"otilde;", "õ">>, <<"otimes;", "⊗">>, <<"ouml", "ö">>, <<"ouml;", "ö">>,
     <<"para", "¶">>, <<"para;", "¶">>, <<"parsim;", "⫳">>, <<"parsl;", "⫽">>, <<"percnt;", "%">>,
     <<"period;", ".">>, <<"perp;", "⊥">>, <<"phi;", "φ">>, <<"phiv;", "ϕ">>, <<"pi;", "π">>,
     <<"pitchfork;", "⋔">>, <<"piv;", "ϖ">>, <<"plus;", "+">>, <<"plusb;", "⊞">>, <<"plusmn", "±">>,
     <<"plusmn;", "±">>, <<"pm;", "±">>, <<"pound", "£">>, <<"pound;", "£">>, <<"prE;", "⪳">>,
     <<"prap;", "⪷">>, <<"pre;", "⪯">>, <<"precapprox;", "⪷">>, <<"preceq;", "⪯">>,
     <<"precnapprox;", "⪹">>, <<"precneqq;", "⪵">>, <<"precnsim;", "⋨">>, <<"prnE;", "⪵">>,
     <<"prnap;", "⪹">>, <<"prnsim;", "⋨">>, <<"prurel;", "⊰">>, <<"psi;", "ψ">>, <<"quest;", "?">>,
     <<"quot", "\"">>, <<"quot;", "\"">>, <<"rAarr;", "⇛">>, <<"rArr;", "⇒">>, <<"raemptyv;", "⦳">>,
     <<"rang;", "⟩">>, <<"rangd;", "⦒">>, <<"range;", "⦥">>, <<"rangle;", "⟩">>, <<"raquo", "»">>,
     <<"raquo;", "»">>, <<"rarr;", "→">>, <<"rarrb;", "⇥">>, <<"rarrhk;", "↪">>, <<"rarrlp;", "↬">>,
     <<"rarrtl;", "↣">>, <<"rarrw;", "↝">>, <<"rbrace;", "}">>, <<"rbrack;", "]">>,
     <<"rbrke;", "⦌">>, <<"rbrksld;", "⦎">>, <<"rbrkslu;", "⦐">>, <<"rcub;", "}">>,
     <<"rdsh;", "↳">>, <<"rect;", "▭">>, <<"reg", "®">>, <<"reg;", "®">>, <<"rhard;", "⇁">>,
     <<"rharu;", "⇀">>, <<"rho;", "ρ">>, <<"rhov;", "ϱ">>, <<"rightarrow;", "→">>,
     <<"rightarrowtail;", "↣">>, <<"rightharpoondown;", "⇁">>, <<"rightharpoonup;", "⇀">>,
     <<"rightleftarrows;", "⇄">>, <<"rightleftharpoons;", "⇌">>, <<"rightrightarrows;", "⇉">>,
     <<"rightsquigarrow;", "↝">>, <<"rightthreetimes;", "⋌">>, <<"ring;", "˚">>, <<"rlarr;", "⇄">>,
     <<"rlhar;", "⇌">>, <<"rmoust;", "⎱">>, <<"rmoustache;", "⎱">>, <<"rnmid;", "⫮">>,
     <<"roang;", "⟭">>, <<"roarr;", "⇾">>, <<"robrk;", "⟧">>, <<"ropar;", "⦆">>, <<"rpar;", ")">>,
     <<"rpargt;", "⦔">>, <<"rrarr;", "⇉">>, <<"rsh;", "↱">>, <<"rsqb;", "]">>, <<"rthree;", "⋌">>,
     <<"rtimes;", "⋊">>, <<"rtri;", "▹">>, <<"rtrie;", "⊵">>, <<"rtrif;", "▸">>,
     <<"rtriltri;", "⧎">>, <<"scE;", "⪴">>, <<"scap;", "⪸">>, <<"sce;", "⪰">>, <<"scnE;", "⪶">>,
     <<"scnap;", "⪺">>, <<"scnsim;", "⋩">>, <<"sdot;", "⋅">>, <<"sdotb;", "⊡">>, <<"seArr;", "⇘">>,
     <<"searr;", "↘">>, <<"searrow;", "↘">>, <<"sect", "§">>, <<"sect;", "§">>, <<"semi;", ";">>,
     <<"shy", "­">>, <<"shy;", "­">>, <<"sigma;", "σ">>, <<"sigmaf;", "ς">>, <<"sigmav;", "ς">>,
     <<"simg;", "⪞">>, <<"simgE;", "⪠">>, <<"siml;", "⪝">>, <<"simlE;", "⪟">>, <<"slarr;", "←">>,
     <<"smeparsl;", "⧤">>, <<"smt;", "⪪">>, <<"smte;", "⪬">>, <<"sol;", "/">>, <<"solb;", "⧄">>,
     <<"sqcap;", "⊓">>, <<"sqcup;", "⊔">>, <<"sqsub;", "⊏">>, <<"sqsube;", "⊑">>,
     <<"sqsubset;", "⊏">>, <<"sqsubseteq;", "⊑">>, <<"sqsup;", "⊐">>, <<"sqsupe;", "⊒">>,
     <<"sqsupset;", "⊐">>, <<"sqsupseteq;", "⊒">>, <<"squ;", "□">>, <<"square;", "□">>,
     <<"squarf;", "▪">>, <<"squf;", "▪">>, <<"srarr;", "→">>, <<"sstarf;", "⋆">>,
     <<"straightepsilon;", "ϵ">>, <<"straightphi;", "ϕ">>, <<"strns;", "¯">>, <<"sub;", "⊂">>,
     <<"subE;", "⫅">>, <<"subdot;", "⪽">>, <<"sube;", "⊆">>, <<"subedot;", "⫃">>,
     <<"submult;", "⫁">>, <<"subnE;", "⫋">>, <<"subne;", "⊊">>, <<"subplus;", "⪿">>,
     <<"subset;", "⊂">>, <<"subseteq;", "⊆">>, <<"subseteqq;", "⫅">>, <<"subsetneq;", "⊊">>,
     <<"subsetneqq;", "⫋">>, <<"subsim;", "⫇">>, <<"subsub;", "⫕">>, <<"subsup;", "⫓">>,
     <<"succapprox;", "⪸">>, <<"succeq;", "⪰">>, <<"succnapprox;", "⪺">>, <<"succneqq;", "⪶">>,
     <<"succnsim;", "⋩">>, <<"sup1", "¹">>, <<"sup1;", "¹">>, <<"sup2", "²">>, <<"sup2;", "²">>,
     <<"sup3", "³">>, <<"sup3;", "³">>, <<"sup;", "⊃">>, <<"supE;", "⫆">>, <<"supdot;", "⪾">>,
     <<"supdsub;", "⫘">>, <<"supe;", "⊇">>, <<"supedot;", "⫄">>, <<"suphsol;", "⟉">>,
     <<"suphsub;", "⫗">>, <<"supmult;", "⫂">>, <<"supnE;", "⫌">>, <<"supne;", "⊋">>,
     <<"supplus;", "⫀">>, <<"supset;", "⊃">>, <<"supseteq;", "⊇">>, <<"supseteqq;", "⫆">>,
     <<"supsetneq;", "⊋">>, <<"supsetneqq;", "⫌">>, <<"supsim;", "⫈">>, <<"supsub;", "⫔">>,
     <<"supsup;", "⫖">>, <<"swArr;", "⇙">>, <<"swarr;", "↙">>, <<"swarrow;", "↙">>,
     <<"szlig", "ß">>, <<"szlig;", "ß">>, <<"tau;", "τ">>, <<"tbrk;", "⎴">>, <<"tdot;", "⃛">>,
     <<"theta;", "θ">>, <<"thetasym;", "ϑ">>, <<"thetav;", "ϑ">>, <<"thorn", "þ">>,
     <<"thorn;", "þ">>, <<"tilde;", "˜">>, <<"times", "×">>, <<"times;", "×">>, <<"timesb;", "⊠">>,
     <<"top;", "⊤">>, <<"topcir;", "⫱">>, <<"topfork;", "⫚">>, <<"triangle;", "▵">>,
     <<"triangledown;", "▿">>, <<"triangleleft;", "◃">>, <<"trianglelefteq;", "⊴">>,
     <<"triangleright;", "▹">>, <<"trianglerighteq;", "⊵">>, <<"tridot;", "◬">>, <<"trisb;", "⧍">>,
     <<"trpezium;", "⏢">>, <<"twoheadleftarrow;", "↞">>, <<"twoheadrightarrow;", "↠">>,
     <<"uArr;", "⇑">>, <<"uacute", "ú">>, <<"uacute;", "ú">>, <<"uarr;", "↑">>, <<"ucirc", "û">>,
     <<"ucirc;", "û">>, <<"udarr;", "⇅">>, <<"ugrave", "ù">>, <<"ugrave;", "ù">>, <<"uharl;", "↿">>,
     <<"uharr;", "↾">>, <<"uhblk;", "▀">>, <<"ultri;", "◸">>, <<"uml", "¨">>, <<"uml;", "¨">>,
     <<"uparrow;", "↑">>, <<"updownarrow;", "↕">>, <<"upharpoonleft;", "↿">>,
     <<"upharpoonright;", "↾">>, <<"uplus;", "⊎">>, <<"upsi;", "υ">>, <<"upsih;", "ϒ">>,
     <<"upsilon;", "υ">>, <<"upuparrows;", "⇈">>, <<"urtri;", "◹">>, <<"utdot;", "⋰">>,
     <<"utri;", "▵">>, <<"utrif;", "▴">>, <<"uuarr;", "⇈">>, <<"uuml", "ü">>, <<"uuml;", "ü">>,
     <<"uwangle;", "⦧">>, <<"vArr;", "⇕">>, <<"vBar;", "⫨">>, <<"vBarv;", "⫩">>, <<"vDash;", "⊨">>,
     <<"vangrt;", "⦜">>, <<"varepsilon;", "ϵ">>, <<"varkappa;", "ϰ">>, <<"varphi;", "ϕ">>,
     <<"varpi;", "ϖ">>, <<"varr;", "↕">>, <<"varrho;", "ϱ">>, <<"varsigma;", "ς">>,
     <<"vartheta;", "ϑ">>, <<"vartriangleleft;", "⊲">>, <<"vartriangleright;", "⊳">>,
     <<"vdash;", "⊢">>, <<"veebar;", "⊻">>, <<"vellip;", "⋮">>, <<"verbar;", "|">>,
     <<"vert;", "|">>, <<"vltri;", "⊲">>, <<"vnsub;", "⊂⃒">>, <<"vnsup;", "⊃⃒">>, <<"vrtri;", "⊳">>,
     <<"vzigzag;", "⦚">>, <<"xcap;", "⋂">>, <<"xcirc;", "◯">>, <<"xcup;", "⋃">>, <<"xdtri;", "▽">>,
     <<"xhArr;", "⟺">>, <<"xharr;", "⟷">>, <<"xi;", "ξ">>, <<"xlArr;", "⟸">>, <<"xlarr;", "⟵">>,
     <<"xmap;", "⟼">>, <<"xnis;", "⋻">>, <<"xrArr;", "⟹">>, <<"xrarr;", "⟶">>, <<"xutri;", "△">>,
     <<"xvee;", "⋁">>, <<"xwedge;", "⋀">>, <<"yacute", "ý">>, <<"yacute;", "ý">>, <<"yen", "¥">>,
     <<"yen;", "¥">>, <<"yuml", "ÿ">>, <<"yuml;", "ÿ">>, <<"zeta;", "ζ">>, <<"zigrarr;", "⇝">>}

\* the names of html.entities.html5 whose characters no string of the model
\* holds: a reference to one of them has no value here
Html5Unheld ==
    {"Abreve;", "Acy;", "Afr;", "Amacr;", "And;", "Aogon;", "Aopf;", "ApplyFunction;", "Ascr;",
     "Assign;", "Backslash;", "Barwed;", "Bcy;", "Because;", "Bernoullis;", "Bfr;", "Bopf;",
     "Bscr;", "Bumpeq;", "CHcy;", "Cacute;", "CapitalDifferentialD;", "Cayleys;", "Ccaron;",
     "Ccirc;", "Cconint;", "Cdot;", "Cfr;", "ClockwiseContourIntegral;", "CloseCurlyDoubleQuote;",
     "CloseCurlyQuote;", "Colon;", "Colone;", "Congruent;", "Conint;", "ContourIntegral;", "Copf;",
     "Coproduct;", "CounterClockwiseContourIntegral;", "Cross;", "Cscr;", "CupCap;", "DD;",
     "DDotrahd;", "DJcy;", "DScy;", "DZcy;", "Dagger;", "Dcaron;", "Dcy;", "Del;", "Dfr;",
     "DiacriticalGrave;", "DifferentialD;", "Dopf;", "DotEqual;", "DoubleContourIntegral;",
     "DoubleVerticalBar;", "DownArrowBar;", "DownBreve;", "DownLeftRightVector;",
     "DownLeftTeeVector;", "DownLeftVectorBar;", "DownRightTeeVector;", "DownRightVectorBar;",
     "Dscr;", "Dstrok;", "ENG;", "Ecaron;", "Ecy;", "Edot;", "Efr;", "Element;", "Emacr;", "Eogon;",
     "Eopf;", "Equal;", "EqualTilde;", "Escr;", "Esim;", "Exists;", "ExponentialE;", "Fcy;", "Ffr;",
     "Fopf;", "ForAll;", "Fouriertrf;", "Fscr;", "GJcy;", "Gbreve;", "Gcedil;", "Gcirc;", "Gcy;",
     "Gdot;", "Gfr;", "Gopf;", "GreaterEqual;", "GreaterFullEqual;", "GreaterLess;",
     "GreaterSlantEqual;", "GreaterTilde;", "Gscr;", "Gt;", "HARDcy;", "Hcirc;", "Hfr;",
     "HilbertSpace;", "Hopf;", "HorizontalLine;", "Hscr;", "Hstrok;", "HumpDownHump;", "HumpEqual;",
     "IEcy;", "IJlig;", "IOcy;", "Icy;", "Idot;", "Ifr;", "Im;", "Imacr;", "ImaginaryI;", "Int;",
     "Integral;", "InvisibleComma;", "InvisibleTimes;", "Iogon;", "Iopf;", "Iscr;", "Itilde;",
     "Iukcy;", "Jcirc;", "Jcy;", "Jfr;", "Jopf;", "Jscr;", "Jsercy;", "Jukcy;", "KHcy;", "KJcy;",
     "Kcedil;", "Kcy;", "Kfr;", "Kopf;", "Kscr;", "LJcy;", "Lacute;", "Laplacetrf;", "Lcaron;",
     "Lcedil;", "Lcy;", "LeftCeiling;", "LeftDownTeeVector;", "LeftDownVectorBar;", "LeftFloor;",
     "LeftRightVector;", "LeftTeeVector;", "LeftUpDownVector;", "LeftUpTeeVector;",
     "LeftUpVectorBar;", "LeftVectorBar;", "LessFullEqual;", "LessGreater;", "LessSlantEqual;",
     "LessTilde;", "Lfr;", "Lmidot;", "Lopf;", "Lscr;", "Lstrok;", "Lt;", "Map;", "Mcy;",
     "MediumSpace;", "Mellintrf;", "Mfr;", "MinusPlus;", "Mopf;", "Mscr;", "NJcy;", "Nacute;",
     "Ncaron;", "Ncedil;", "Ncy;", "NegativeMediumSpace;", "NegativeThickSpace;",
     "NegativeThinSpace;", "NegativeVeryThinSpace;", "NestedGreaterGreater;", "NestedLessLess;",
     "Nfr;", "NoBreak;", "Nopf;", "NotCongruent;", "NotCupCap;", "NotDoubleVerticalBar;",
     "NotElement;", "NotEqual;", "NotEqualTilde;", "NotExists;", "NotGreater;", "NotGreaterEqual;",
     "NotGreaterFullEqual;", "NotGreaterGreater;", "NotGreaterLess;", "NotGreaterSlantEqual;",
     "NotGreaterTilde;", "NotHumpDownHump;", "NotHumpEqual;", "NotLeftTriangleBar;", "NotLess;",
     "NotLessEqual;", "NotLessGreater;", "NotLessLess;", "NotLessSlantEqual;", "NotLessTilde;",
     "NotNestedGreaterGreater;", "NotNestedLessLess;", "NotPrecedesEqual;", "NotReverseElement;",
     "NotRightTriangleBar;", "NotSquareSubset;", "NotSquareSuperset;", "NotSucceedsEqual;",
     "NotSucceedsTilde;", "NotTilde;", "NotTildeEqual;", "NotTildeFullEqual;", "NotTildeTilde;",
     "NotVerticalBar;", "Nscr;", "OElig;", "Ocy;", "Odblac;", "Ofr;", "Omacr;", "Oopf;",
     "OpenCurlyDoubleQuote;", "OpenCurlyQuote;", "Or;", "Oscr;", "Otimes;", "OverBar;", "PartialD;",
     "Pcy;", "Pfr;", "Poincareplane;", "Popf;", "Precedes;", "PrecedesSlantEqual;",
     "PrecedesTilde;", "Prime;", "Product;", "Proportion;", "Proportional;", "Pscr;", "Qfr;",
     "Qopf;", "Qscr;", "RBarr;", "Racute;", "Rarrtl;", "Rcaron;", "Rcedil;", "Rcy;", "Re;",
     "ReverseElement;", "ReverseUpEquilibrium;", "Rfr;", "RightCeiling;", "RightDownTeeVector;",
     "RightDownVectorBar;", "RightFloor;", "RightTeeVector;", "RightUpDownVector;",
     "RightUpTeeVector;", "RightUpVectorBar;", "RightVectorBar;", "Ropf;", "RoundImplies;", "Rscr;",
     "SHCHcy;", "SHcy;", "SOFTcy;", "Sacute;", "Scaron;", "Scedil;", "Scirc;", "Scy;", "Sfr;",
     "SmallCircle;", "Sopf;", "Sqrt;", "Sscr;", "Succeeds;", "SucceedsSlantEqual;",
     "SucceedsTilde;", "SuchThat;", "Sum;", "TRADE;", "TSHcy;", "TScy;", "Tcaron;", "Tcedil;",
     "Tcy;", "Tfr;", "Therefore;", "ThickSpace;", "ThinSpace;", "Tilde;", "TildeEqual;",
     "TildeFullEqual;", "TildeTilde;", "Topf;", "Tscr;", "Tstrok;", "Uarrocir;", "Ubrcy;",
     "Ubreve;", "Ucy;", "Udblac;", "Ufr;", "Umacr;", "Uogon;", "Uopf;", "UpArrowBar;",
     "UpEquilibrium;", "Uring;", "Uscr;", "Utilde;", "Vcy;", "Verbar;", "Vert;", "VerticalBar;",
     "VerticalSeparator;", "VerticalTilde;", "VeryThinSpace;", "Vfr;", "Vopf;", "Vscr;", "Wcirc;",
     "Wfr;", "Wopf;", "Wscr;", "Xfr;", "Xopf;", "Xscr;", "YAcy;", "YIcy;", "YUcy;", "Ycirc;",
     "Ycy;", "Yfr;", "Yopf;", "Yscr;", "Yuml;", "ZHcy;", "Zacute;", "Zcaron;", "Zcy;", "Zdot;",
     "ZeroWidthSpace;", "Zfr;", "Zopf;", "Zscr;", "abreve;", "ac;", "acE;", "acd;", "acy;", "af;",
     "afr;", "alefsym;", "aleph;", "amacr;", "amalg;", "and;", "andand;", "andd;", "andslope;",
     "andv;", "ang;", "angle;", "angmsd;", "angrt;", "angsph;", "angzarr;", "aogon;", "aopf;",
     "ap;", "apE;", "apacir;", "ape;", "apid;", "approx;", "approxeq;", "ascr;", "asymp;",
     "asympeq;", "awconint;", "awint;", "backcong;", "backprime;", "backsim;", "barwed;",
     "barwedge;", "bcong;", "bcy;", "bdquo;", "becaus;", "because;", "bernou;", "beth;", "between;",
     "bfr;", "bigodot;", "bigoplus;", "bigotimes;", "bigsqcup;", "bigstar;", "biguplus;", "bkarow;",
     "blank;", "bnequiv;", "bnot;", "bopf;", "boxDL;", "boxDR;", "boxDl;", "boxDr;", "boxH;",
     "boxHD;", "boxHU;", "boxHd;", "boxHu;", "boxUL;", "boxUR;", "boxUl;", "boxUr;", "boxV;",
     "boxVH;", "boxVL;", "boxVR;", "boxVh;", "boxVl;", "boxVr;", "boxdL;", "boxdR;", "boxdl;",
     "boxdr;", "boxh;", "boxhD;", "boxhU;", "boxhd;", "boxhu;", "boxuL;", "boxuR;", "boxul;",
     "boxur;", "boxv;", "boxvH;", "boxvL;", "boxvR;", "boxvh;", "boxvl;", "boxvr;", "bprime;",
     "bscr;", "bsemi;", "bsim;", "bull;", "bullet;", "bump;", "bumpe;", "bumpeq;", "cacute;",
     "cap;", "capand;", "capbrcup;", "capcap;", "capcup;", "capdot;", "caps;", "caret;", "ccaps;",
     "ccaron;", "ccirc;", "ccups;", "ccupssm;", "cdot;", "cfr;", "chcy;", "check;", "checkmark;",
     "circeq;", "cire;", "cirfnint;", "clubs;", "clubsuit;", "colone;", "coloneq;", "comp;",
     "compfn;", "complement;", "complexes;", "cong;", "congdot;", "conint;", "copf;", "coprod;",
     "copysr;", "cross;", "cscr;", "cudarrl;", "cudarrr;", "cularrp;", "cup;", "cupbrcap;",
     "cupcap;", "cupcup;", "cupor;", "cups;", "curarrm;", "cwconint;", "cwint;", "cylcty;", "dHar;",
     "dagger;", "daleth;", "dash;", "dbkarow;", "dcaron;", "dcy;", "dd;", "ddagger;", "ddotseq;",
     "dfisht;", "dfr;", "diamondsuit;", "diams;", "djcy;", "dlcorn;", "dlcrop;", "dopf;", "doteq;",
     "doteqdot;", "dotminus;", "dotplus;", "doublebarwedge;", "drbkarow;", "drcorn;", "drcrop;",
     "dscr;", "dscy;", "dstrok;", "duhar;", "dzcy;", "eDDot;", "eDot;", "easter;", "ecaron;",
     "ecir;", "ecolon;", "ecy;", "edot;", "ee;", "efDot;", "efr;", "ell;", "emacr;", "empty;",
     "emptyset;", "emptyv;", "emsp13;", "emsp14;", "emsp;", "eng;", "ensp;", "eogon;", "eopf;",
     "eplus;", "eqcirc;", "eqcolon;", "eqsim;", "equest;", "equiv;", "equivDD;", "erDot;", "erarr;",
     "escr;", "esdot;", "esim;", "exist;", "expectation;", "exponentiale;", "fallingdotseq;",
     "fcy;", "female;", "ffilig;", "fflig;", "ffllig;", "ffr;", "filig;", "flat;", "fllig;",
     "fopf;", "forall;", "fpartint;", "frac13;", "frac15;", "frac16;", "frac18;", "frac23;",
     "frac25;", "frac35;", "frac38;", "frac45;", "frac56;", "frac58;", "frac78;", "frasl;",
     "frown;", "fscr;", "gE;", "gbreve;", "gcirc;", "gcy;", "gdot;", "ge;", "geq;", "geqq;",
     "geqslant;", "ges;", "gesl;", "gfr;", "gg;", "gimel;", "gjcy;", "gl;", "gnE;", "gneqq;",
     "gopf;", "grave;", "gscr;", "gsim;", "gtcir;", "gtquest;", "gtrarr;", "gtrless;", "gtrsim;",
     "gvertneqq;", "gvnE;", "hairsp;", "hamilt;", "hardcy;", "harrcir;", "hbar;", "hcirc;",
     "hearts;", "heartsuit;", "hellip;", "hfr;", "hksearow;", "hkswarow;", "homtht;", "hopf;",
     "horbar;", "hscr;", "hslash;", "hstrok;", "hybull;", "hyphen;", "ic;", "icy;", "iecy;", "ifr;",
     "ii;", "iiiint;", "iiint;", "iiota;", "ijlig;", "imacr;", "image;", "imagline;", "imagpart;",
     "imath;", "in;", "incare;", "infin;", "inodot;", "int;", "integers;", "intlarhk;", "intprod;",
     "iocy;", "iogon;", "iopf;", "iprod;", "iscr;", "isin;", "isinv;", "it;", "itilde;", "iukcy;",
     "jcirc;", "jcy;", "jfr;", "jmath;", "jopf;", "jscr;", "jsercy;", "jukcy;", "kcedil;", "kcy;",
     "kfr;", "kgreen;", "khcy;", "kjcy;", "kopf;", "kscr;", "lAtail;", "lBarr;", "lE;", "lHar;",
     "lacute;", "lagran;", "larrbfs;", "larrfs;", "larrpl;", "larrsim;", "latail;", "lates;",
     "lbarr;", "lbbrk;", "lcaron;", "lcedil;", "lceil;", "lcy;", "ldca;", "ldquo;", "ldquor;",
     "ldrdhar;", "ldrushar;", "le;", "leq;", "leqq;", "leqslant;", "les;", "lesdot;", "lesg;",
     "lessgtr;", "lesssim;", "lfisht;", "lfloor;", "lfr;", "lg;", "lharul;", "ljcy;", "ll;",
     "llcorner;", "llhard;", "lmidot;", "lnE;", "lneqq;", "lopf;", "loplus;", "lotimes;", "lowast;",
     "lrcorner;", "lrhard;", "lrm;", "lsaquo;", "lscr;", "lsim;", "lsquo;", "lsquor;", "lstrok;",
     "ltcir;", "ltlarr;", "ltquest;", "lurdshar;", "luruhar;", "lvertneqq;", "lvnE;", "mDDot;",
     "male;", "malt;", "maltese;", "mcomma;", "mcy;", "mdash;", "measuredangle;", "mfr;", "mho;",
     "mid;", "minus;", "minusd;", "minusdu;", "mldr;", "mnplus;", "mopf;", "mp;", "mscr;",
     "mstpos;", "nGg;", "nGt;", "nGtv;", "nLl;", "nLt;", "nLtv;", "nabla;", "nacute;", "nang;",
     "nap;", "napE;", "napid;", "napos;", "napprox;", "natur;", "natural;", "naturals;", "nbump;",
     "nbumpe;", "ncap;", "ncaron;", "ncedil;", "ncong;", "ncongdot;", "ncup;", "ncy;", "ndash;",
     "ne;", "nearhk;", "nedot;", "nequiv;", "nesear;", "nesim;", "nexist;", "nexists;", "nfr;",
     "ngE;", "nge;", "ngeq;", "ngeqq;", "ngeqslant;", "nges;", "ngsim;", "ngt;", "ngtr;", "ni;",
     "niv;", "njcy;", "nlE;", "nldr;", "nle;", "nleq;", "nleqq;", "nleqslant;", "nles;", "nless;",
     "nlsim;", "nlt;", "nmid;", "nopf;", "notin;", "notinE;", "notindot;", "notinva;", "notni;",
     "notniva;", "npar;", "nparallel;", "npart;", "npolint;", "npre;", "npreceq;", "nrarrc;",
     "nrarrw;", "nsce;", "nscr;", "nshortmid;", "nshortparallel;", "nsim;", "nsime;", "nsimeq;",
     "nsmid;", "nspar;", "nsubE;", "nsubseteqq;", "nsucceq;", "nsupE;", "nsupseteqq;", "ntgl;",
     "ntlg;", "numero;", "numsp;", "nvHarr;", "nvap;", "nvge;", "nvlArr;", "nvle;", "nvrArr;",
     "nvsim;", "nwarhk;", "nwnear;", "ocy;", "odblac;", "odiv;", "oelig;", "ofr;", "oint;",
     "oline;", "omacr;", "oopf;", "or;", "ord;", "order;", "orderof;", "oror;", "orslope;", "orv;",
     "oscr;", "otimesas;", "ovbar;", "par;", "parallel;", "part;", "pcy;", "permil;", "pertenk;",
     "pfr;", "phmmat;", "phone;", "planck;", "planckh;", "plankv;", "plusacir;", "pluscir;",
     "plusdo;", "plusdu;", "pluse;", "plussim;", "plustwo;", "pointint;", "popf;", "pr;", "prcue;",
     "prec;", "preccurlyeq;", "precsim;", "prime;", "primes;", "prod;", "profalar;", "profline;",
     "profsurf;", "prop;", "propto;", "prsim;", "pscr;", "puncsp;", "qfr;", "qint;", "qopf;",
     "qprime;", "qscr;", "quaternions;", "quatint;", "questeq;", "rAtail;", "rBarr;", "rHar;",
     "race;", "racute;", "radic;", "rarrap;", "rarrbfs;", "rarrc;", "rarrfs;", "rarrpl;",
     "rarrsim;", "ratail;", "ratio;", "rationals;", "rbarr;", "rbbrk;", "rcaron;", "rcedil;",
     "rceil;", "rcy;", "rdca;", "rdldhar;", "rdquo;", "rdquor;", "real;", "realine;", "realpart;",
     "reals;", "rfisht;", "rfloor;", "rfr;", "rharul;", "risingdotseq;", "rlm;", "ropf;", "roplus;",
     "rotimes;", "rppolint;", "rsaquo;", "rscr;", "rsquo;", "rsquor;", "ruluhar;", "rx;", "sacute;",
     "sbquo;", "sc;", "scaron;", "sccue;", "scedil;", "scirc;", "scpolint;", "scsim;", "scy;",
     "sdote;", "searhk;", "seswar;", "setminus;", "setmn;", "sext;", "sfr;", "sfrown;", "sharp;",
     "shchcy;", "shcy;", "shortmid;", "shortparallel;", "sim;", "simdot;", "sime;", "simeq;",
     "simne;", "simplus;", "simrarr;", "smallsetminus;", "smashp;", "smid;", "smile;", "smtes;",
     "softcy;", "solbar;", "sopf;", "spades;", "spadesuit;", "spar;", "sqcaps;", "sqcups;", "sscr;",
     "ssetmn;", "ssmile;", "star;", "starf;", "subrarr;", "succ;", "succcurlyeq;", "succsim;",
     "sum;", "sung;", "suplarr;", "swarhk;", "swnwar;", "target;", "tcaron;", "tcedil;", "tcy;",
     "telrec;", "tfr;", "there4;", "therefore;", "thickapprox;", "thicksim;", "thinsp;", "thkap;",
     "thksim;", "timesbar;", "timesd;", "tint;", "toea;", "topbot;", "topf;", "tosa;", "tprime;",
     "trade;", "triangleq;", "trie;", "triminus;", "triplus;", "tritime;", "tscr;", "tscy;",
     "tshcy;", "tstrok;", "twixt;", "uHar;", "ubrcy;", "ubreve;", "ucy;", "udblac;", "udhar;",
     "ufisht;", "ufr;", "ulcorn;", "ulcorner;", "ulcrop;", "umacr;", "uogon;", "uopf;", "urcorn;",
     "urcorner;", "urcrop;", "uring;", "uscr;", "utilde;", "varnothing;", "varpropto;",
     "varsubsetneq;", "varsubsetneqq;", "varsupsetneq;", "varsupsetneqq;", "vcy;", "vee;", "veeeq;",
     "vfr;", "vopf;", "vprop;", "vscr;", "vsubnE;", "vsubne;", "vsupnE;", "vsupne;", "wcirc;",
     "wedbar;", "wedge;", "wedgeq;", "weierp;", "wfr;", "wopf;", "wp;", "wr;", "wreath;", "wscr;",
     "xfr;", "xodot;", "xopf;", "xoplus;", "xotime;", "xscr;", "xsqcup;", "xuplus;", "yacy;",
     "ycirc;", "ycy;", "yfr;", "yicy;", "yopf;", "yscr;", "yucy;", "zacute;", "zcaron;", "zcy;",
     "zdot;", "zeetrf;", "zfr;", "zhcy;", "zopf;", "zscr;", "zwj;", "zwnj;"}

Html5Held == {p[1] : p \in Html5}

Html5Names == Html5Held \cup Html5Unheld

Html5Value(name) ==
    CASE name \in Html5Held -> (CHOOSE p \in Html5 : p[1] = name)[2]

\* html._invalid_charrefs: the numbers a numeric reference maps specially
InvalidCharrefs ==
    {<<0, "�">>, <<13, "\r">>, <<128, "€">>, <<129, "">>, <<131, "ƒ">>, <<136, "ˆ">>, <<141, "">>,
     <<143, "">>, <<144, "">>, <<152, "˜">>, <<157, "">>}

InvalidCharrefsUnheld ==
    {130, 132, 133, 134, 135, 137, 138, 139, 140, 142, 145, 146, 147, 148, 149, 150, 151, 153, 154,
     155, 156, 158, 159}

\* html._invalid_codepoints: the numbers a numeric reference drops
InvalidCodepoints ==
    (1..8) \cup (14..31) \cup (127..159) \cup (64976..65007) \cup {11}

Noncharacter(n) == n % 65536 \in {65534, 65535}

Digits == "0123456789"

HexDigits == "0123456789abcdefABCDEF"

IndexIn(s, c) == CHOOSE i \in 1..Len(s) : CharAt(s, i) = c

In(s, c) == \E i \in 1..Len(s) : CharAt(s, i) = c

HexValue(c) == LET i == IndexIn(HexDigits, c) IN IF i > 16 THEN i - 7 ELSE i - 1

\* int(digits, base), saturating above the last code point
RECURSIVE CodePoint(_, _, _)
CodePoint(digits, base, acc) ==
    IF digits = "" THEN acc
    ELSE LET n == acc * base + HexValue(CharAt(digits, 1)) IN
         CodePoint(SubSeq(digits, 2, Len(digits)), base, IF n > 1114111 THEN 1114112 ELSE n)

\* the length of the longest prefix of s made of characters of `allowed`
\* (when `among`) or of characters outside it, up to max
RECURSIVE Run(_, _, _, _)
Run(s, allowed, among, max) ==
    IF s # "" /\ max > 0 /\ (In(allowed, CharAt(s, 1)) = among)
    THEN 1 + Run(SubSeq(s, 2, Len(s)), allowed, among, max - 1)
    ELSE 0

\* with or without the semicolon that follows the first n characters
WithSemicolon(s, n) == IF n < Len(s) /\ CharAt(s, n + 1) = ";" THEN n + 1 ELSE n

\* the length of what group 1 of
\*   &(#[0-9]+;?|#[xX][0-9a-fA-F]+;?|[^\t\n\f <&#;]{1,32};?)
\* matches at the start of s, the text after an "&"; 0 when nothing matches
CharrefLen(s) ==
    LET rest == SubSeq(s, 2, Len(s))
        dec == Run(rest, Digits, TRUE, Len(s))
        hex == Run(SubSeq(rest, 2, Len(rest)), HexDigits, TRUE, Len(s))
        name == Run(s, "\t\n\f <&#;", FALSE, 32)
    IN  IF s # "" /\ CharAt(s, 1) = "#"
        THEN IF dec > 0 THEN WithSemicolon(s, 1 + dec)
             ELSE IF rest # "" /\ CharAt(rest, 1) \in {"x", "X"} /\ hex > 0
             THEN WithSemicolon(s, 2 + hex)
             ELSE 0
        ELSE IF name > 0 THEN WithSemicolon(s, name) ELSE 0

\* s.rstrip(";") of a match
DropSemicolon(s) ==
    IF s # "" /\ CharAt(s, Len(s)) = ";" THEN SubSeq(s, 1, Len(s) - 1) ELSE s

\* the character of a numeric reference
NumericCharref(num) ==
    IF \E p \in InvalidCharrefs : p[1] = num
    THEN (CHOOSE p \in InvalidCharrefs : p[1] = num)[2]
    ELSE CASE num \notin InvalidCharrefsUnheld ->
            IF (55296 <= num /\ num <= 57343) \/ num > 1114111 THEN "�"
            ELSE IF num \in InvalidCodepoints \/ Noncharacter(num) THEN ""
            ELSE Chr(num)

\* the longest proper prefix of s, of two characters or more, that is a name
LongestName(s) ==
    LET lens == {x \in 2..(Len(s) - 1) : SubSeq(s, 1, x) \in Html5Names} IN
    IF lens = {} THEN 0 ELSE CHOOSE x \in lens : \A y \in lens : y <= x

\* html._replace_charref, on the text group 1 matched
ReplaceCharref(s) ==
    IF CharAt(s, 1) = "#"
    THEN IF CharAt(s, 2) \in {"x", "X"}
         THEN NumericCharref(CodePoint(DropSemicolon(SubSeq(s, 3, Len(s))), 16, 0))
         ELSE NumericCharref(CodePoint(DropSemicolon(SubSeq(s, 2, Len(s))), 10, 0))
    ELSE IF s \in Html5Names
    THEN Html5Value(s)
    ELSE LET x == LongestName(s) IN
         IF x > 0
         THEN Html5Value(SubSeq(s, 1, x)) \o SubSeq(s, x + 1, Len(s))
         ELSE "&" \o s

\* _charref.sub(_replace_charref, text): the matches are taken from left to
\* right, and what replaces one is not read again
RECURSIVE Unescape(_)
Unescape(text) ==
    IF text = "" THEN ""
    ELSE LET rest == SubSeq(text, 2, Len(text))
             n == IF CharAt(text, 1) = "&" THEN CharrefLen(rest) ELSE 0
         IN  IF n > 0
             THEN ReplaceCharref(SubSeq(rest, 1, n)) \o Unescape(SubSeq(rest, n + 1, Len(rest)))
             ELSE CharAt(text, 1) \o Unescape(rest)

strip_html(text) == Strip(Unescape(StripTags(text)))

\* " ".join(parts)
RECURSIVE JoinSpace(_)
JoinSpace(parts) ==
    IF parts = << >> THEN ""
    ELSE IF Len(parts) = 1 THEN parts[1]
    ELSE parts[1] \o " " \o JoinSpace(Tail(parts))

\* re.split(r"(?<=[.!?]) +", text): cut at every run of spaces that follows
\* one of . ! ?; the run is dropped.
SentenceEnd == {".", "!", "?"}

RECURSIVE SkipSpaces(_)
SkipSpaces(s) ==
    IF s # "" /\ CharAt(s, 1) = " " THEN SkipSpaces(SubSeq(s, 2, Len(s))) ELSE s

RECURSIVE SplitSentences(_, _)
SplitSentences(text, cur) ==
    \* cur: the characters of the sentence being read
    IF text = "" THEN <<cur>>
    ELSE IF /\ CharAt(text, 1) = " "
            /\ cur # ""
            /\ CharAt(cur, Len(cur)) \in SentenceEnd
    THEN <<cur>> \o SplitSentences(SkipSpaces(text), "")
    ELSE SplitSentences(SubSeq(text, 2, Len(text)), cur \o CharAt(text, 1))

\* sentences[:2]
FirstTwo(sentences) == SubSeq(sentences, 1, IF Len(sentences) < 2 THEN Len(sentences) ELSE 2)

RuleSummary(text) == Strip(JoinSpace(FirstTwo(SplitSentences(text, ""))))

\* the parts list: summary, description, then each truthy content value
EntryParts(e) ==
    LET fields == SelectSeq(<<e.summary, e.description>>, Truthy)
        blocks == SelectSeq(e.content, Truthy)
    IN  [i \in 1..(Len(fields) + Len(blocks)) |->
            IF i <= Len(fields) THEN fields[i][1] ELSE blocks[i - Len(fields)][1]]

extract_summary(world, e) ==
    LET parts == EntryParts(e) IN
    IF parts = << >> THEN None
    ELSE LET text == strip_html(JoinSpace(parts))
             llm == llm_summarize(world, text)
         IN  IF Truthy(llm) THEN llm ELSE Some(RuleSummary(text))

----------------------------------------------------------------------------
(* SpecText: one feed entry is turned into an article (fetch_feed calls     *)
(* extract_summary) and the article is annotated (write_json and to_text    *)
(* call suggest_drawback).  Each call meets its own world of the external   *)
(* service.                                                                 *)

Titles ==
    {"Acme announces AI automation platform",
     "New pricing for cloud SaaS",
     "Security breach and cost overrun",
     "Costume party",
     "Training on integration",
     "Partnership integration lowers cost",
     "SLOW Latency",
     ""}

Sources == {None, Some(""), Some("Acme"), Some("Qlik"), Some("Databricks"), Some("qlik")}

Entries ==
    {[summary |-> None, description |-> None, content |-> << >>],
     [summary |-> Some("<p>Pricing &amp; cost rise. Slow rollout! More later.</p>"),
      description |-> None, content |-> << >>],
     [summary |-> Some("<br>"), description |-> None, content |-> << >>],
     [summary |-> None, description |-> Some("Migration from silo.  Done? Yes. No."),
      content |-> << >>],
     [summary |-> Some("A &lt;b&gt; tag"), description |-> None,
      content |-> <<Some("<div>Security first.</div>"), None, Some("")>>],
     [summary |-> Some(""), description |-> Some(""), content |-> <<Some(" privacy ")>>],
     [summary |-> Some("No terminator"), description |-> Some("second part. Third.   Fourth"),
      content |-> << >>],
     [summary |-> Some("a <> b < c > d.e"), description |-> None, content |-> << >>]}

LlmText == " Weak governance story. "

NoEntry == [summary |-> None, description |-> None, content |-> << >>]

\* No service configured: no key, no library.
NoService == [key |-> None, lib |-> FALSE, outcome |-> "raise", content |-> None]

Worlds ==
    {[key |-> k, lib |-> l, outcome |-> "content", content |-> Some(LlmText)] :
        k \in {None, Some(""), Some("sk-test")}, l \in BOOLEAN}
    \cup
    {[key |-> Some("sk-test"), lib |-> TRUE, outcome |-> o, content |-> c] :
        o \in {"raise", "content"}, c \in {None, Some(""), Some(" \n")}}

\* fetch_feed: Article(..., summary=extract_summary(entry), ...)
FetchEntry ==
    /\ tpc = "entry"
    /\ \E w \in Worlds :
        /\ senv' = w
        /\ summary' = extract_summary(w, entry)
    /\ tpc' = "article"
    /\ UNCHANGED <<title, source, entry, env, drawback>>
    /\ UNCHANGED <<svars, mvars>>

\* suggest_drawback(art.title, art.summary, art.source)
Annotate ==
    /\ tpc = "article"
    /\ \E w \in Worlds :
        /\ env' = w
        /\ drawback' = suggest_drawback(w, title, summary, source)
    /\ tpc' = "annotated"
    /\ UNCHANGED <<title, source, entry, summary, senv>>
    /\ UNCHANGED <<svars, mvars>>

----------------------------------------------------------------------------
(* The digest: an insertion-ordered mapping from source name to the list   *)
(* of its articles, as a sequence of [source, articles] groups.            *)

EmptyDigest == << >>

\* Digest.add: self.feeds.setdefault(article.source or "Unknown", []).append(article)
DigestAdd(d, art) ==
    LET key == OrElse(art.source, "Unknown") IN
    IF \E i \in DOMAIN d : d[i].source = key
    THEN [i \in DOMAIN d |->
            IF d[i].source = key
            THEN [d[i] EXCEPT !.articles = Append(@, art)]
            ELSE d[i]]
    ELSE Append(d, [source |-> key, articles |-> <<art>>])

RECURSIVE AddAll(_, _)
AddAll(d, arts) ==
    IF arts = << >> THEN d ELSE AddAll(DigestAdd(d, Head(arts)), Tail(arts))

\* for source, articles in digest.feeds.items(): for art in articles: ...
RECURSIVE DigestArticles(_)
DigestArticles(d) ==
    IF d = << >> THEN << >> ELSE Head(d).articles \o DigestArticles(Tail(d))

----------------------------------------------------------------------------
(* The store merger.  The backing file is [kind, items]:                   *)
(*   "absent"    no file                                                   *)
(*   "list"      a JSON array of record objects (items)                    *)
(*   "garbled"   text that is not JSON (json.loads: JSONDecodeError)       *)
(*   "badutf8"   bytes that are not UTF-8 (read_text: UnicodeDecodeError)  *)
(*   "object"    a non-empty JSON object (its keys have no .get)           *)

AbsentFile == [kind |-> "absent", items |-> << >>]

ListFile(recs) == [kind |-> "list", items |-> recs]

\* a < b on Python strings: by code points, a proper prefix first
RECURSIVE StrLess(_, _)
StrLess(a, b) ==
    IF b = "" THEN FALSE
    ELSE IF a = "" THEN TRUE
    ELSE IF CharAt(a, 1) = CharAt(b, 1)
    THEN StrLess(SubSeq(a, 2, Len(a)), SubSeq(b, 2, Len(b)))
    ELSE Ord(CharAt(a, 1)) < Ord(CharAt(b, 1))

\* existing[key] = rec on an insertion-ordered dict: an existing key keeps
\* its position, a new key goes last.
DictSet(d, key, rec) ==
    IF \E i \in DOMAIN d : d[i].link = key
    THEN [i \in DOMAIN d |-> IF d[i].link = key THEN rec ELSE d[i]]
    ELSE Append(d, rec)

\* for item in current: if item.get("link"): existing[item["link"]] = item
RECURSIVE LoadItems(_, _)
LoadItems(existing, items) ==
    IF items = << >> THEN existing
    ELSE LoadItems(
            IF Head(items).link # ""
            THEN DictSet(existing, Head(items).link, Head(items))
            ELSE existing,
            Tail(items))

\* What reading the store raises ("none": nothing, or an exception caught).
LoadError(file) ==
    CASE file.kind = "badutf8" -> "UnicodeDecodeError"
      [] file.kind = "object" -> "AttributeError"
      [] OTHER -> "none"

LoadExisting(file) ==
    IF file.kind = "list" THEN LoadItems(<< >>, file.items) ELSE << >>

MakeRecord(art, day, world) ==
    [title |-> art.title,
     link |-> art.link,
     summary |-> art.summary,
     published |-> art.published,
     source |-> art.source,
     category |-> art.category,
     drawbacks |-> suggest_drawback(world, art.title, art.summary, art.source),
     fetched |-> day]

\* the upsert loop over the digest; worlds[i] is the external-service world
\* the i-th suggest_drawback call meets
RECURSIVE Upsert(_, _, _, _)
Upsert(existing, arts, day, worlds) ==
    IF arts = << >> THEN existing
    ELSE Upsert(DictSet(existing, Head(arts).link, MakeRecord(Head(arts), day, Head(worlds))),
                Tail(arts), day, Tail(worlds))

\* Variant: an ascending sort reversed, which reverses records with equal keys.
RECURSIVE SortUnstable(_)
SortUnstable(recs) ==
    IF recs = << >> THEN << >>
    ELSE LET init == SortUnstable(SubSeq(recs, 1, Len(recs) - 1))
             r == recs[Len(recs)]
             k == Cardinality({i \in DOMAIN init : StrLess(r.fetched, init[i].fetched)})
         IN  SubSeq(init, 1, k) \o <<r>> \o SubSeq(init, k + 1, Len(init))

\* merged.sort(key=lambda x: x.get("fetched", ""), reverse=True): a stable
\* sort, so records with equal keys keep their order.
RECURSIVE SortByFetched(_)
SortByFetched(recs) ==
    IF recs = << >> THEN << >>
    ELSE LET init == SortByFetched(SubSeq(recs, 1, Len(recs) - 1))
             r == recs[Len(recs)]
             k == Cardinality({i \in DOMAIN init : ~StrLess(init[i].fetched, r.fetched)})
         IN  SubSeq(init, 1, k) \o <<r>> \o SubSeq(init, k + 1, Len(init))

\* Variant: the new records are appended to the stored ones, not upserted.
MergeAppending(file, d, day, worlds) ==
    LET arts == DigestArticles(d) IN
    LoadExisting(file) \o [i \in DOMAIN arts |-> MakeRecord(arts[i], day, worlds[i])]

\* list(existing.values()) after the load and the upsert loop
Merge(file, d, day, worlds) ==
    Upsert(LoadExisting(file), DigestArticles(d), day, worlds)

\* write_json as a whole: [err, file, merged]
write_json(file, d, day, worlds) ==
    IF LoadError(file) # "none"
    THEN [err |-> LoadError(file), file |-> file, merged |-> << >>]
    ELSE LET m == Merge(file, d, day, worlds) IN
         [err |-> "none", file |-> ListFile(SortByFetched(m)), merged |-> m]

----------------------------------------------------------------------------
(* SpecStore: runs of write_json against one backing file, with the file   *)
(* damaged or removed from outside between runs.                           *)

MaxArticles == 2

StoreArticles ==
    {[title |-> "Costume party", link |-> "http://x/a", summary |-> None,
      published |-> Some("Mon, 26 Oct 2026"), source |-> Some("Qlik"), category |-> "vendor"],
     [title |-> "SLOW Latency", link |-> "http://x/a", summary |-> Some("privacy"),
      published |-> None, source |-> Some("Acme"), category |-> "trend"],
     [title |-> "New pricing for cloud SaaS", link |-> "http://x/b", summary |-> Some(""),
      published |-> None, source |-> Some("Acme"), category |-> "vendor"],
     [title |-> "", link |-> "", summary |-> None,
      published |-> None, source |-> Some(""), category |-> "vendor"]}

Dates == {"2026-10-29", "2026-10-30"}

StoreWorlds ==
    {NoService,
     [key |-> Some("sk-test"), lib |-> TRUE, outcome |-> "content", content |-> Some(LlmText)]}

DamagedKinds == {"garbled", "badutf8", "object"}

\* digest = Digest(): a run starts with an empty digest
StartRun ==
    /\ op \in {"write_json", "damage", "delete"}
    /\ op' = "build"
    /\ digest' = EmptyDigest
    /\ prevStore' = AbsentFile
    /\ today' = ""
    /\ sworlds' = << >>
    /\ merged' = << >>
    /\ serr' = "none"
    /\ UNCHANGED store
    /\ UNCHANGED <<tvars, mvars>>

\* digest.add(article)
AddArticle ==
    /\ op = "build"
    /\ Len(DigestArticles(digest)) < MaxArticles
    /\ \E art \in StoreArticles : digest' = DigestAdd(digest, art)
    /\ UNCHANGED <<op, store, prevStore, today, sworlds, merged, serr>>
    /\ UNCHANGED <<tvars, mvars>>

\* write_json(digest, output)
WriteJson ==
    /\ op = "build"
    /\ \E day \in Dates, w \in StoreWorlds :
        LET ws == [i \in DOMAIN DigestArticles(digest) |-> w]
            r == write_json(store, digest, day, ws)
        IN  /\ today' = day
            /\ sworlds' = ws
            /\ store' = r.file
            /\ merged' = r.merged
            /\ serr' = r.err
    /\ op' = "write_json"
    /\ prevStore' = store
    /\ UNCHANGED digest
    /\ UNCHANGED <<tvars, mvars>>

\* between runs, a manual edit or a disk fault leaves the file unreadable
DamageStore ==
    /\ op = "build" /\ digest = EmptyDigest
    /\ store.kind = "list"
    /\ \E k \in DamagedKinds : store' = [kind |-> k, items |-> << >>]
    /\ op' = "damage"
    /\ UNCHANGED <<prevStore, digest, today, sworlds, merged, serr>>
    /\ UNCHANGED <<tvars, mvars>>

\* between runs, the backing file is deleted externally
DeleteStore ==
    /\ op = "build" /\ digest = EmptyDigest
    /\ store.kind # "absent"
    /\ store' = AbsentFile
    /\ op' = "delete"
    /\ UNCHANGED <<prevStore, digest, today, sworlds, merged, serr>>
    /\ UNCHANGED <<tvars, mvars>>

----------------------------------------------------------------------------
(* Feeds and fetching *)

DefaultMaxItems == 5

DefaultCategory == "vendor"

\* Feed(**item): name and url are required, max_items and category default
LoadFeed(item) ==
    [name |-> item.name,
     url |-> item.url,
     max_items |-> IF item.max_items = << >> THEN DefaultMaxItems ELSE item.max_items[1],
     category |-> IF item.category = None THEN DefaultCategory ELSE item.category[1]]

load_feeds(items) == [i \in DOMAIN items |-> LoadFeed(items[i])]

\* entry.get(key, "")
GetOr(o, default) == IF o = None THEN default ELSE o[1]

\* fetch_feed: one Article per entry of parsed.entries[:feed.max_items]
fetch_feed(feed, entries, world) ==
    LET kept == Prefix(entries, feed.max_items) IN
    [i \in DOMAIN kept |->
        [title |-> GetOr(kept[i].title, ""),
         link |-> GetOr(kept[i].link, ""),
         summary |-> extract_summary(world, kept[i]),
         published |-> kept[i].published,
         source |-> Some(feed.name),
         category |-> feed.category]]

\* the connections fetch_feed opens: the feed itself, then one call of the
\* text-generation service per entry that has text, when it is configured
fetch_net(feed, entries, world) ==
    LET withText == SelectSeq(Prefix(entries, feed.max_items), LAMBDA e : EntryParts(e) # << >>)
    IN  <<"feed">> \o (IF LlmConnects(world) THEN [i \in DOMAIN withText |-> "llm"] ELSE << >>)

----------------------------------------------------------------------------
(* The renderers *)

\* sep.join(lines)
RECURSIVE JoinWith(_, _)
JoinWith(lines, sep) ==
    IF lines = << >> THEN ""
    ELSE IF Len(lines) = 1 THEN lines[1]
    ELSE lines[1] \o sep \o JoinWith(Tail(lines), sep)

ArticleLines(art, world) ==
    <<"- " \o art.title>>
    \o (IF Truthy(art.summary) THEN <<"  " \o art.summary[1]>> ELSE << >>)
    \o <<"  Potential drawback: " \o suggest_drawback(world, art.title, art.summary, art.source),
         "  " \o art.link,
         "">>

RECURSIVE ArticlesLines(_, _)
ArticlesLines(arts, world) ==
    IF arts = << >> THEN << >>
    ELSE ArticleLines(Head(arts), world) \o ArticlesLines(Tail(arts), world)

RECURSIVE DigestLines(_, _)
DigestLines(d, world) ==
    IF d = << >> THEN << >>
    ELSE <<Head(d).source \o ":">> \o ArticlesLines(Head(d).articles, world)
         \o DigestLines(Tail(d), world)

\* Digest.to_text; every suggest_drawback call of the step meets `world`
to_text(d, world) == Strip(JoinWith(DigestLines(d, world), "\n"))

\* render_html: the page as its structure, one section per source with one
\* item (link, title, published) per article
render_html(d) ==
    [i \in DOMAIN d |->
        [source |-> d[i].source,
         items |-> [j \in DOMAIN d[i].articles |->
                      [link |-> d[i].articles[j].link,
                       title |-> d[i].articles[j].title,
                       published |-> d[i].articles[j].published]]]]

----------------------------------------------------------------------------
(* The notifier.  The environment is [host, user, pass, from, to, port],   *)
(* each Optional[str] (None: the variable is not set).                     *)

\* The decimal digits int() reads (the characters of category Nd), and the
\* ASCII digit of each, position by position.
DecimalDigits ==
    "0123456789۰۱۲۳۴۵۶۷۸۹߀߁߂߃߄߅߆߇߈߉০১২৩৪৫৬৭৮৯૦૧૨૩૪૫૬૭૮૯"
    \o "௦௧௨௩௪௫௬௭௮௯೦೧೨೩೪೫೬೭೮೯෦෧෨෩෪෫෬෭෮෯໐໑໒໓໔໕໖໗໘໙႐႑႒႓႔႕႖႗႘႙"
    \o "០១២៣៤៥៦៧៨៩᧐᧑᧒᧓᧔᧕᧖᧗᧘᧙᪀᪁᪂᪃᪄᪅᪆᪇᪈᪉᪐᪑᪒᪓᪔᪕᪖᪗᪘᪙᮰᮱᮲᮳᮴᮵᮶᮷᮸᮹"
    \o "꣐꣑꣒꣓꣔꣕꣖꣗꣘꣙꧐꧑꧒꧓꧔꧕꧖꧗꧘꧙꧰꧱꧲꧳꧴꧵꧶꧷꧸꧹꯰꯱꯲꯳꯴꯵꯶꯷꯸꯹"

DecimalDigitValues ==
    "01234567890123456789012345678901234567890123456789"
    \o "01234567890123456789012345678901234567890123456789"
    \o "01234567890123456789012345678901234567890123456789"
    \o "0123456789012345678901234567890123456789"

IsDigit(c) == In(DecimalDigits, c)

DigitValue(c) == IndexIn(Digits, CharAt(DecimalDigitValues, IndexIn(DecimalDigits, c))) - 1

\* the whitespace int() skips around the number: that of str.strip() less
\* the four separator controls
IntSpace == Whitespace \ {"", "", "", ""}

RECURSIVE IntLStrip(_)
IntLStrip(s) ==
    IF s # "" /\ CharAt(s, 1) \in IntSpace THEN IntLStrip(SubSeq(s, 2, Len(s))) ELSE s

RECURSIVE IntRStrip(_)
IntRStrip(s) ==
    IF s # "" /\ CharAt(s, Len(s)) \in IntSpace
    THEN IntRStrip(SubSeq(s, 1, Len(s) - 1))
    ELSE s

\* the text int() reads after the surrounding whitespace and the sign
Unsigned(text) ==
    LET t == IntRStrip(IntLStrip(text)) IN
    IF t # "" /\ CharAt(t, 1) \in {"+", "-"} THEN SubSeq(t, 2, Len(t)) ELSE t

Negative(text) == LET t == IntLStrip(text) IN t # "" /\ CharAt(t, 1) = "-"

\* whether int(text) returns: digits, with single underscores between them,
\* after an optional sign; anything else raises ValueError
IsDecimal(text) ==
    LET t == Unsigned(text) IN
    /\ t # ""
    /\ \A i \in 1..Len(t) : IsDigit(CharAt(t, i)) \/ CharAt(t, i) = "_"
    /\ IsDigit(CharAt(t, 1)) /\ IsDigit(CharAt(t, Len(t)))
    /\ \A i \in 1..(Len(t) - 1) : ~(CharAt(t, i) = "_" /\ CharAt(t, i + 1) = "_")

RECURSIVE DigitsValue(_)
DigitsValue(s) ==
    IF s = "" THEN 0
    ELSE IF CharAt(s, Len(s)) = "_" THEN DigitsValue(SubSeq(s, 1, Len(s) - 1))
    ELSE 10 * DigitsValue(SubSeq(s, 1, Len(s) - 1)) + DigitValue(CharAt(s, Len(s)))

\* int(text)
DecimalValue(text) ==
    IF Negative(text) THEN 0 - DigitsValue(Unsigned(text)) ELSE DigitsValue(Unsigned(text))

DefaultPort == "587"

\* recipients.split(",")
RECURSIVE SplitComma(_, _)
SplitComma(text, cur) ==
    IF text = "" THEN <<cur>>
    ELSE IF CharAt(text, 1) = ","
    THEN <<cur>> \o SplitComma(SubSeq(text, 2, Len(text)), "")
    ELSE SplitComma(SubSeq(text, 2, Len(text)), cur \o CharAt(text, 1))

\* sender = os.environ.get("EMAIL_FROM", user)
Sender(menv) == IF menv.from = None THEN menv.user ELSE menv.from

\* all([host, user, password, sender, recipients])
MailConfigured(menv) ==
    /\ Truthy(menv.host) /\ Truthy(menv.user) /\ Truthy(menv.pass)
    /\ Truthy(Sender(menv)) /\ Truthy(menv.to)

\* the connections Digest.to_text opens: one per article when the service
\* is configured
LlmConnections(d, world) ==
    IF LlmConnects(world) THEN [i \in DOMAIN DigestArticles(d) |-> "llm"] ELSE << >>

\* msg = MIMEText(digest.to_text()) with its Subject, From and To: the
\* header values as they are set, and the text
Message(menv, d, world) ==
    [subject |-> "Daily Analytics Digest",
     from |-> Sender(menv)[1],
     to |-> menv.to[1],
     text |-> to_text(d, world)]

(* msg.as_string(): the text the relay is handed.  A message whose text is *)
(* ASCII goes out as it is, line ends rewritten; any other text goes out   *)
(* as the base64 of its UTF-8 bytes.  A header value is written line by    *)
(* line, as RFC 2047 encoded words when it is not ASCII.                   *)

\* s.encode("us-ascii") succeeds
IsAscii(s) ==
    \A i \in 1..Len(s) : CharAt(s, i) \in DOMAIN OrdOf /\ Ord(CharAt(s, i)) < 128

\* the parts one after the other, `empty` being "" for strings and << >>
\* for sequences
RECURSIVE Concat(_, _)
Concat(parts, empty) ==
    IF parts = << >> THEN empty
    ELSE IF Len(parts) = 1 THEN parts[1]
    ELSE LET half == Len(parts) \div 2 IN
         Concat(SubSeq(parts, 1, half), empty)
         \o Concat(SubSeq(parts, half + 1, Len(parts)), empty)

\* s.encode("utf-8"), byte by byte; no value for a character whose code
\* point Ord does not know
Utf8(s) ==
    LET Bytes(n) == IF n < 128 THEN <<n>> ELSE <<192 + (n \div 64), 128 + (n % 64)>>
    IN  Concat([i \in 1..Len(s) |-> Bytes(Ord(CharAt(s, i)))], << >>)

\* the four base64 characters of one to three bytes
Base64Group(b) ==
    LET Char(n) ==
            CharAt("ABCDEFGHIJKLMNOPQRSTUVWXYZabcdefghijklmnopqrstuvwxyz0123456789+/", n + 1)
        b1 == b[1]
        b2 == IF Len(b) > 1 THEN b[2] ELSE 0
        b3 == IF Len(b) > 2 THEN b[3] ELSE 0
    IN  Char(b1 \div 4)
        \o Char((b1 % 4) * 16 + (b2 \div 16))
        \o (IF Len(b) > 1 THEN Char((b2 % 16) * 4 + (b3 \div 64)) ELSE "=")
        \o (IF Len(b) > 2 THEN Char(b3 % 64) ELSE "=")

\* the i-th piece of n items of a sequence
Piece(seq, n, i) ==
    SubSeq(seq, n * (i - 1) + 1, IF n * i < Len(seq) THEN n * i ELSE Len(seq))

b64encode(bytes) ==
    Concat([i \in 1..((Len(bytes) + 2) \div 3) |-> Base64Group(Piece(bytes, 3, i))], "")

\* base64mime.body_encode: lines of 76 characters, 57 bytes, each ended
\* by "\n"
body_encode(bytes) ==
    Concat([i \in 1..((Len(bytes) + 56) \div 57) |-> b64encode(Piece(bytes, 57, i)) \o "\n"],
           "")

\* the payload MIMEText keeps for its text
Payload(text) == IF IsAscii(text) THEN text ELSE body_encode(Utf8(text))

\* Generator._write_lines: "\r\n", "\r" and "\n" are each written as "\n"
write_lines(s) ==
    Concat([i \in 1..Len(s) |->
               IF CharAt(s, i) = "\r" THEN "\n"
               ELSE IF CharAt(s, i) = "\n" /\ i > 1 /\ CharAt(s, i - 1) = "\r" THEN ""
               ELSE CharAt(s, i)], "")

\* str.splitlines(): a line ends at a boundary, "\r\n" being one boundary
RECURSIVE splitlines(_)
splitlines(s) ==
    LET LineBreaks ==
            {"\n", "\r", "", "\f", "", "", "", ""}
        at == {i \in 1..Len(s) : CharAt(s, i) \in LineBreaks}
    IN  IF s = "" THEN << >>
        ELSE IF at = {} THEN <<s>>
        ELSE LET i == CHOOSE i \in at : \A j \in at : i <= j
                 n == IF CharAt(s, i) = "\r" /\ i < Len(s) /\ CharAt(s, i + 1) = "\n"
                      THEN 2 ELSE 1
             IN  <<SubSeq(s, 1, i - 1)>> \o splitlines(SubSeq(s, i + n, Len(s)))

\* _ValueFormatter.newline: a line of several loses the single space it
\* ends with
DropLastSpace(line) ==
    IF /\ line # ""
       /\ CharAt(line, Len(line)) = " "
       /\ (Len(line) = 1 \/ CharAt(line, Len(line) - 1) \notin {" ", "\t"})
    THEN SubSeq(line, 1, Len(line) - 1)
    ELSE line

\* the lines after the first: an empty one is left out, one of white space
\* only (str.isspace) is joined to the line before it
RECURSIVE Continuation(_, _)
Continuation(out, lines) ==
    IF lines = << >> THEN out
    ELSE LET t == DropLastSpace(Head(lines)) IN
         Continuation(IF t = "" THEN out
                      ELSE IF \A i \in 1..Len(t) : CharAt(t, i) \in Whitespace
                      THEN [out EXCEPT ![Len(out)] = @ \o t]
                      ELSE Append(out, t),
                      Tail(lines))

\* _QUOPRI_HEADER_MAP: what the Q encoding writes for a byte
QByte(n) ==
    LET hex == "0123456789ABCDEF" IN
    IF n = 32 THEN "_"
    ELSE IF /\ n < 128 /\ n # 96
            /\ In("-!*+/ABCDEFGHIJKLMNOPQRSTUVWXYZabcdefghijklmnopqrstuvwxyz0123456789", Chr(n))
    THEN Chr(n)
    ELSE "=" \o CharAt(hex, (n \div 16) + 1) \o CharAt(hex, (n % 16) + 1)

QEncode(bytes) == Concat([i \in DOMAIN bytes |-> QByte(bytes[i])], "")

\* base64mime.header_length
Base64Length(bytes) == 4 * ((Len(bytes) + 2) \div 3)

\* Charset.header_encode for utf-8: base64 or Q, whichever is shorter
header_encode(s) ==
    LET bytes == Utf8(s) IN
    IF bytes = << >> THEN ""
    ELSE IF Base64Length(bytes) < Len(QEncode(bytes))
    THEN "=?utf-8?b?" \o b64encode(bytes) \o "?="
    ELSE "=?utf-8?q?" \o QEncode(bytes) \o "?="

\* maxlinelen = 0: no line of the value is long enough (1000000) to be
\* folded; an encoded word takes 12 characters more than what it encodes
Unfolded(name, v) ==
    LET lines == splitlines(v)
        Shortest(bytes) ==
            IF Base64Length(bytes) < Len(QEncode(bytes))
            THEN Base64Length(bytes) ELSE Len(QEncode(bytes))
        LineLength(line) == IF IsAscii(v) THEN Len(line) ELSE 12 + Shortest(Utf8(line))
    IN  \A i \in DOMAIN lines :
            IF i = 1 THEN Len(name) + 2 + LineLength(lines[1]) <= 1000000
            ELSE IF IsAscii(v) THEN LineLength(lines[i]) <= 1000000
            ELSE LineLength(" " \o LStrip(lines[i])) <= 1000000

\* Header(value, header_name=name).encode(maxlinelen=0), before its check:
\* an ASCII value line by line, any other value one encoded word a line;
\* no value for a line long enough to be folded
Fold(name, v) ==
    LET lines == splitlines(v) IN
    CASE Unfolded(name, v) /\ IsAscii(v) ->
            IF lines = << >> THEN ""
            ELSE IF Len(lines) = 1 THEN lines[1]
            ELSE JoinWith(Continuation(<<DropLastSpace(lines[1])>>, Tail(lines)), "\n")
      [] Unfolded(name, v) /\ ~IsAscii(v) ->
            JoinWith(<<header_encode(lines[1])>>
                     \o [i \in 1..(Len(lines) - 1) |->
                            " " \o header_encode(" " \o LStrip(lines[i + 1]))],
                     "\n")

\* _embedded_header, "\n[^ \t]+:", is found in the value
EmbeddedHeader(value) ==
    \E i, j \in 1..Len(value) :
        /\ i + 2 <= j
        /\ CharAt(value, i) = "\n"
        /\ CharAt(value, j) = ":"
        /\ \A k \in (i + 1)..(j - 1) : CharAt(value, k) \notin {" ", "\t"}

\* the headers of the message, in the order MIMEText and send_email set them
Headers(m) ==
    <<<<"Content-Type",
        IF IsAscii(m.text) THEN "text/plain; charset=\"us-ascii\""
        ELSE "text/plain; charset=\"utf-8\"">>,
      <<"MIME-Version", "1.0">>,
      <<"Content-Transfer-Encoding", IF IsAscii(m.text) THEN "7bit" ELSE "base64">>,
      <<"Subject", m.subject>>,
      <<"From", m.from>>,
      <<"To", m.to>>>>

\* as_string raises HeaderParseError
HeaderParseError(m) ==
    LET hs == Headers(m) IN
    \E i \in DOMAIN hs : EmbeddedHeader(Fold(hs[i][1], hs[i][2]))

\* msg.as_string() when it raises nothing: the headers, an empty line, the
\* payload
as_string(m) ==
    LET hs == Headers(m) IN
    Concat([i \in DOMAIN hs |-> hs[i][1] \o ": " \o Fold(hs[i][1], hs[i][2]) \o "\n"], "")
    \o "\n" \o write_lines(Payload(m.text))

\* SMTP(host, port) and sendmail(sender, recipients.split(","), msg.as_string())
Sent(menv, d, world) ==
    [host |-> menv.host[1],
     port |-> DecimalValue(GetOr(menv.port, DefaultPort)),
     from_addr |-> Sender(menv)[1],
     to_addrs |-> SplitComma(menv.to[1], ""),
     msg |-> as_string(Message(menv, d, world))]

\* Variant: the message is built before the configuration is checked.
send_email_late_check(menv, d, world, smtp) ==
    IF ~IsDecimal(GetOr(menv.port, DefaultPort))
    THEN [err |-> "ValueError", net |-> << >>, sent |-> << >>]
    ELSE IF ~MailConfigured(menv)
    THEN [err |-> "RuntimeError", net |-> LlmConnections(d, world), sent |-> << >>]
    ELSE IF smtp \notin {"ok", "SMTPRecipientsRefused"}
    THEN [err |-> smtp, net |-> LlmConnections(d, world) \o <<"smtp">>, sent |-> << >>]
    ELSE IF HeaderParseError(Message(menv, d, world))
    THEN [err |-> "HeaderParseError", net |-> LlmConnections(d, world) \o <<"smtp">>,
          sent |-> << >>]
    ELSE IF smtp # "ok"
    THEN [err |-> smtp, net |-> LlmConnections(d, world) \o <<"smtp">>, sent |-> << >>]
    ELSE [err |-> "none", net |-> LlmConnections(d, world) \o <<"smtp">>,
          sent |-> <<Sent(menv, d, world)>>]

\* send_email as a whole: [err, net, sent]; smtp is what the relay does:
\* "ok", or the exception that connecting, logging in or sending raises.
\* The message is serialised when sendmail is called, after the relay is
\* connected to and logged in to: only the exception of sendmail itself,
\* SMTPRecipientsRefused, comes after that of as_string.
send_email(menv, d, world, smtp) ==
    IF ~IsDecimal(GetOr(menv.port, DefaultPort))
    THEN [err |-> "ValueError", net |-> << >>, sent |-> << >>]
    ELSE IF ~MailConfigured(menv)
    THEN [err |-> "RuntimeError", net |-> << >>, sent |-> << >>]
    ELSE IF smtp \notin {"ok", "SMTPRecipientsRefused"}
    THEN [err |-> smtp, net |-> LlmConnections(d, world) \o <<"smtp">>, sent |-> << >>]
    ELSE IF HeaderParseError(Message(menv, d, world))
    THEN [err |-> "HeaderParseError", net |-> LlmConnections(d, world) \o <<"smtp">>,
          sent |-> << >>]
    ELSE IF smtp # "ok"
    THEN [err |-> smtp, net |-> LlmConnections(d, world) \o <<"smtp">>, sent |-> << >>]
    ELSE [err |-> "none", net |-> LlmConnections(d, world) \o <<"smtp">>,
          sent |-> <<Sent(menv, d, world)>>]

----------------------------------------------------------------------------
(* SpecMain: one run of main().  pc is the step main() is at; when a step  *)
(* raises, merr holds the exception and pc stays at that step.             *)

\* what the feed URLs serve
FeedEntry(ttl, lnk, summ) ==
    [title |-> ttl, link |-> lnk, published |-> None,
     summary |-> summ, description |-> None, content |-> << >>]

Web(url) ==
    CASE url = "http://qlik/rss" ->
            <<FeedEntry(Some("Costume party"), Some("http://x/a"), Some("<p>Slow rollout.</p>")),
              FeedEntry(Some("Training on integration"), Some("http://x/c"), None)>>
      [] url = "http://acme/rss" ->
            <<FeedEntry(Some("New pricing for cloud SaaS"), Some("http://x/b"),
                         Some("Price list.\r\nDetails soon."))>>
      [] url = "http://acme/blog" ->
            <<FeedEntry(None, None, None)>>
      [] OTHER -> << >>

FeedItem(name, url, max) == [name |-> name, url |-> url, max_items |-> max, category |-> None]

\* the configuration file: None when it cannot be read
Configs ==
    {None,
     Some(<< >>),
     Some(<<FeedItem("Qlik", "http://qlik/rss", <<1>>)>>),
     Some(<<FeedItem("Qlik", "http://qlik/rss", <<-1>>)>>),
     Some(<<FeedItem("Acme", "http://acme/rss", << >>), FeedItem("Qlik", "http://qlik/rss", << >>)>>),
     Some(<<FeedItem("Acme", "http://acme/rss", << >>), FeedItem("Qlik", "http://qlik/rss", <<1>>),
            FeedItem("Acme", "http://acme/blog", << >>)>>)}

ArgSets == [json : {None, Some(""), Some("public/articles.json")}, send_email : BOOLEAN]

\* a record an earlier run wrote
OldRecord ==
    MakeRecord([title |-> "Costume party", link |-> "http://x/a", summary |-> None,
                published |-> None, source |-> Some("Qlik"), category |-> "vendor"],
               "2026-09-30", NoService)

InitialStores ==
    {AbsentFile, ListFile(<<OldRecord>>),
     [kind |-> "garbled", items |-> << >>], [kind |-> "badutf8", items |-> << >>]}

MailEnvs ==
    {[host |-> h, user |-> u, pass |-> pw, from |-> f, to |-> t, port |-> p] :
        h \in {None, Some("smtp.x.io")}, u \in {None, Some("bot")},
        pw \in {None, Some("secret")},
        f \in {None, Some("")},
        t \in {None, Some("a@x.io,b@x.io"), Some("a@x.io \nBcc:b@x.io")},
        p \in {None, Some("2525"), Some(" +2_525"), Some("smtp")}}

\* what the text-generation service is when the digest is mailed
MailWorlds ==
    {NoService,
     [key |-> Some("sk-test"), lib |-> TRUE, outcome |-> "content",
      content |-> Some("Coûteux à déployer.")]}

NoMailEnv == [host |-> None, user |-> None, pass |-> None, from |-> None, to |-> None, port |-> None]

\* Variant: build_digest returns from inside its loop, after the first feed.
NextFetchEarlyReturn(fs, n) == IF n = 0 /\ Len(fs) > 0 THEN "fetch" ELSE "render"

\* build_digest: the loop over the feeds goes on until every feed is fetched
NextFetch(fs, n) == IF n < Len(fs) THEN "fetch" ELSE "render"

\* if args.send_email: send_email(digest)
AfterJson(a) == IF a.send_email THEN "email" ELSE "done"

\* if args.json: write_json(digest, Path(args.json))
AfterRender(a) == IF Truthy(a.json) THEN "json" ELSE AfterJson(a)

LoadFeeds ==
    /\ pc = "load" /\ merr = "none"
    /\ IF config = None
       THEN /\ merr' = "FileNotFoundError"
            /\ UNCHANGED <<pc, feeds, steps>>
       ELSE /\ feeds' = load_feeds(config[1])
            /\ pc' = NextFetch(feeds', 0)
            /\ steps' = Append(steps, "load")
            /\ UNCHANGED merr
    /\ UNCHANGED <<mstore0, args, config, fetched, mdigest, html, mstore, mailbox, net, mailenv>>
    /\ UNCHANGED <<tvars, svars>>

\* one iteration of build_digest's loop: fetch_feed(feed), in configuration order
FetchFeed ==
    /\ pc = "fetch" /\ merr = "none"
    /\ LET i == Len(fetched) + 1 IN
       \E ok \in BOOLEAN, w \in StoreWorlds :
          /\ IF ok
             THEN /\ mdigest' = AddAll(mdigest, fetch_feed(feeds[i], Web(feeds[i].url), w))
                  /\ net' = fetch_net(feeds[i], Web(feeds[i].url), w)
                  /\ fetched' = Append(fetched, feeds[i].name)
                  /\ steps' = Append(steps, "fetch")
                  /\ pc' = NextFetch(feeds, i)
                  /\ UNCHANGED merr
             ELSE /\ merr' = "URLError"
                  /\ net' = <<"feed">>
                  /\ UNCHANGED <<mdigest, fetched, steps, pc>>
    /\ UNCHANGED <<mstore0, args, config, feeds, html, mstore, mailbox, mailenv>>
    /\ UNCHANGED <<tvars, svars>>

RenderHtml ==
    /\ pc = "render" /\ merr = "none"
    /\ html' = Some(render_html(mdigest))
    /\ steps' = Append(steps, "render")
    /\ pc' = AfterRender(args)
    /\ net' = << >>
    /\ UNCHANGED <<mstore0, args, config, feeds, fetched, mdigest, mstore, mailbox, mailenv, merr>>
    /\ UNCHANGED <<tvars, svars>>

WriteStore ==
    /\ pc = "json" /\ merr = "none"
    /\ \E day \in Dates, w \in StoreWorlds :
        LET r == write_json(mstore, mdigest, day, [i \in DOMAIN DigestArticles(mdigest) |-> w]) IN
        /\ IF r.err = "none"
           THEN /\ mstore' = r.file
                /\ net' = LlmConnections(mdigest, w)
                /\ steps' = Append(steps, "json")
                /\ pc' = AfterJson(args)
                /\ UNCHANGED merr
           ELSE /\ merr' = r.err
                /\ net' = << >>
                /\ UNCHANGED <<mstore, steps, pc>>
    /\ UNCHANGED <<mstore0, args, config, feeds, fetched, mdigest, html, mailbox, mailenv>>
    /\ UNCHANGED <<tvars, svars>>

SendEmail ==
    /\ pc = "email" /\ merr = "none"
    /\ \E menv \in MailEnvs, w \in MailWorlds,
         smtp \in {"ok", "SMTPConnectError", "SMTPAuthenticationError", "SMTPRecipientsRefused"} :
        LET r == send_email(menv, mdigest, w, smtp) IN
        /\ mailenv' = menv
        /\ net' = r.net
        /\ mailbox' = mailbox \o r.sent
        /\ merr' = r.err
        /\ IF r.err = "none"
           THEN /\ pc' = "done"
                /\ steps' = Append(steps, "email")
           ELSE UNCHANGED <<pc, steps>>
    /\ UNCHANGED <<mstore0, args, config, feeds, fetched, mdigest, html, mstore>>
    /\ UNCHANGED <<tvars, svars>>

----------------------------------------------------------------------------
(* Specifications.  Each one runs one part of the program and holds the    *)
(* variables of the other parts at rest.                                   *)

\* one run of main()
Init ==
    /\ pc = "load"
    /\ args \in ArgSets
    /\ config \in Configs
    /\ mstore \in InitialStores
    /\ mstore0 = mstore
    /\ feeds = << >>
    /\ fetched = << >>
    /\ mdigest = EmptyDigest
    /\ html = << >>
    /\ mailbox = << >>
    /\ net = << >>
    /\ mailenv = NoMailEnv
    /\ merr = "none"
    /\ steps = << >>
    /\ tpc = "off" /\ title = "" /\ summary = None /\ source = None
    /\ entry = NoEntry /\ senv = NoService /\ env = NoService /\ drawback = ""
    /\ op = "off" /\ store = AbsentFile /\ prevStore = AbsentFile
    /\ digest = EmptyDigest /\ today = "" /\ sworlds = << >>
    /\ merged = << >> /\ serr = "none"

Next == LoadFeeds \/ FetchFeed \/ RenderHtml \/ WriteStore \/ SendEmail

Spec == Init /\ [][Next]_vars

\* the summarizer and the annotator on one feed entry
InitText ==
    /\ tpc = "entry"
    /\ title \in Titles
    /\ source \in Sources
    /\ entry \in Entries
    /\ summary = None
    /\ senv = NoService
    /\ env = NoService
    /\ drawback = ""
    /\ op = "off" /\ store = AbsentFile /\ prevStore = AbsentFile
    /\ digest = EmptyDigest /\ today = "" /\ sworlds = << >>
    /\ merged = << >> /\ serr = "none"
    /\ pc = "off" /\ args = [json |-> None, send_email |-> FALSE] /\ config = None
    /\ feeds = << >> /\ fetched = << >> /\ mdigest = EmptyDigest /\ html = << >>
    /\ mstore = AbsentFile /\ mstore0 = AbsentFile
    /\ mailbox = << >> /\ net = << >> /\ mailenv = NoMailEnv
    /\ merr = "none" /\ steps = << >>

NextText == FetchEntry \/ Annotate

SpecText == InitText /\ [][NextText]_vars

\* runs of the digest build and write_json against one backing file
InitStore ==
    /\ op = "build"
    /\ store = AbsentFile
    /\ prevStore = AbsentFile
    /\ digest = EmptyDigest
    /\ today = ""
    /\ sworlds = << >>
    /\ merged = << >>
    /\ serr = "none"
    /\ tpc = "off" /\ title = "" /\ summary = None /\ source = None
    /\ entry = NoEntry /\ senv = NoService /\ env = NoService /\ drawback = ""
    /\ pc = "off" /\ args = [json |-> None, send_email |-> FALSE] /\ config = None
    /\ feeds = << >> /\ fetched = << >> /\ mdigest = EmptyDigest /\ html = << >>
    /\ mstore = AbsentFile /\ mstore0 = AbsentFile
    /\ mailbox = << >> /\ net = << >> /\ mailenv = NoMailEnv
    /\ merr = "none" /\ steps = << >>

NextStore == StartRun \/ AddArticle \/ WriteJson \/ DamageStore \/ DeleteStore

SpecStore == InitStore /\ [][NextStore]_vars

----------------------------------------------------------------------------
(* Properties of the annotator and the summarizer (SpecText) *)

\* the external call was made and gave a usable text
LlmSucceeded(w) ==
    /\ Truthy(w.key) /\ w.lib
    /\ w.outcome = "content" /\ w.content # None
    /\ Strip(w.content[1]) # ""

\* the keyword groups of extract_drawback_hint, in the order it tries them
HintGroups ==
    <<[keys |-> {"security", "breach", "privacy", "compliance"}, sentence |-> SecurityHint],
      [keys |-> {"cost", "pricing", "expensive"}, sentence |-> PricingHint],
      [keys |-> {"complex", "complicated", "learning curve", "training"}, sentence |-> ComplexityHint],
      [keys |-> {"integration", "migration", "silo"}, sentence |-> IntegrationHint],
      [keys |-> {"performance", "latency", "slow"}, sentence |-> PerformanceHint]>>

HintSentences == {HintGroups[g].sentence : g \in DOMAIN HintGroups}

\* the groups of a list that occur in the lower-cased title+summary
Matching(groups) ==
    LET text == Lower(Combined(title, summary)) IN
    {g \in DOMAIN groups : AnyIn(text, groups[g].keys)}

First(S) == CHOOSE g \in S : \A h \in S : g <= h

KnownVendor == source # None /\ source[1] \in VendorNames

\* C6: the tiers of suggest_drawback apply in strict precedence: a usable
\* external result is returned as it is; else a known vendor yields its table
\* entry, alone or followed by a keyword hint, never a bare hint or the generic
\* sentence; else the sentence of the first matching keyword group; else the
\* generic sentence.  Without a usable external result the drawback is thus a
\* function of (title, summary, source).
C6_TierPrecedence ==
    tpc = "annotated" =>
        IF LlmSucceeded(env)
        THEN drawback = Strip(env.content[1])
        ELSE LET m == Matching(HintGroups) IN
             IF KnownVendor
             THEN /\ \/ drawback = VENDOR_WEAKNESSES(source[1])
                     \/ \E h \in HintSentences :
                            drawback = VENDOR_WEAKNESSES(source[1]) \o " " \o h
                  /\ drawback \notin HintSentences \cup {GenericDrawback}
                  /\ m # {} => drawback = VENDOR_WEAKNESSES(source[1]) \o " "
                                          \o HintGroups[First(m)].sentence
             ELSE IF m # {}
             THEN drawback = HintGroups[First(m)].sentence
             ELSE drawback = GenericDrawback

\* a known vendor whose text also matches a keyword group, with the service
\* configured and failing: the vendor tier decides
C6_Witness ==
    /\ tpc = "annotated"
    /\ source = Some("Qlik")
    /\ title = "Training on integration"
    /\ LlmConnects(env) /\ ~LlmSucceeded(env)
    /\ drawback = VENDOR_WEAKNESSES("Qlik") \o " " \o ComplexityHint

\* the keyword groups and their order as the specification lists them; the
\* sentence is the one the specification or the source gives for the group
\* (none is given for cloud/saas)
AiHintClaimed == "Could require significant compute resources and expert oversight."

ClaimedGroups ==
    <<[keys |-> {"security", "breach", "privacy"}, sentence |-> Some(SecurityHint)],
      [keys |-> {"ai", "machine-learning", "automation"}, sentence |-> Some(AiHintClaimed)],
      [keys |-> {"cloud", "saas"}, sentence |-> None],
      [keys |-> {"partnership", "integration"}, sentence |-> Some(IntegrationHint)],
      [keys |-> {"cost", "pricing"}, sentence |-> Some(PricingHint)],
      [keys |-> {"complexity", "training"}, sentence |-> Some(ComplexityHint)],
      [keys |-> {"migration", "silo"}, sentence |-> Some(IntegrationHint)],
      [keys |-> {"performance", "latency"}, sentence |-> Some(PerformanceHint)]>>

RuleTierUnknownVendor == tpc = "annotated" /\ ~LlmSucceeded(env) /\ ~KnownVendor

AcmeExample ==
    /\ title = "Acme announces AI automation platform"
    /\ summary = Some("")
    /\ source = Some("Acme")

\* C7 as stated: under the rule-based tier, for a source outside the vendor
\* table, the drawback is the sentence of the first group of the listed order
\* (security; ai; cloud; partnership/integration; cost/pricing;
\* complexity/training; migration/silo; performance/latency) that occurs in the
\* text, and the Acme example yields the compute-resources sentence.
C7_Original ==
    RuleTierUnknownVendor =>
        /\ LET m == Matching(ClaimedGroups) IN
           m # {} =>
                LET g == ClaimedGroups[First(m)] IN
                IF g.sentence = None
                THEN drawback \notin HintSentences \cup {GenericDrawback, AiHintClaimed}
                ELSE drawback = g.sentence[1]
        /\ AcmeExample => drawback = AiHintClaimed

\* C7 amended: under the rule-based tier, for a source outside the vendor
\* table, the drawback is the sentence of the first group that occurs in the
\* text, the groups being tried in the order security/breach/privacy/compliance;
\* cost/pricing/expensive; complex/complicated/learning curve/training;
\* integration/migration/silo; performance/latency/slow, and the generic
\* sentence when none occurs; the Acme example yields the generic sentence.
C7_KeywordOrder ==
    RuleTierUnknownVendor =>
        /\ LET m == Matching(HintGroups) IN
           drawback = IF m # {} THEN HintGroups[First(m)].sentence ELSE GenericDrawback
        /\ AcmeExample => drawback = GenericDrawback

C7_Witness ==
    /\ RuleTierUnknownVendor
    /\ AcmeExample
    /\ drawback = GenericDrawback

\* what extract_summary gives with no external service
RuleSummaryOf(e) ==
    IF EntryParts(e) = << >>
    THEN None
    ELSE Some(RuleSummary(strip_html(JoinSpace(EntryParts(e)))))

\* C8: whenever the external call gives no usable text (key missing or empty,
\* library missing, the call raising, a response without content or with an
\* empty one), extract_summary and suggest_drawback return what the rule-based
\* tiers give with no service configured.
C8_SilentFallback ==
    /\ (tpc \in {"article", "annotated"} /\ ~LlmSucceeded(senv)) =>
            summary = RuleSummaryOf(entry)
    /\ (tpc = "annotated" /\ ~LlmSucceeded(env)) =>
            drawback = RuleDrawback(extract_drawback_hint(Combined(title, summary)), source)

\* the summarizer met an empty response and the annotator a failing call
C8_Witness ==
    /\ tpc = "annotated"
    /\ LlmConnects(senv) /\ senv.outcome = "content" /\ senv.content = Some(" \n")
    /\ summary = Some("Migration from silo. Done?")
    /\ LlmConnects(env) /\ env.outcome = "raise"
    /\ drawback = IntegrationHint

----------------------------------------------------------------------------
(* Properties of the store merger (SpecStore) *)

\* write_json returned, having written the file
Written == op = "write_json" /\ serr = "none"

Items == store.items

Arts == DigestArticles(digest)

\* the last article of the digest with the link of article i
LastWithLink(i) ==
    CHOOSE k \in DOMAIN Arts :
        /\ Arts[k].link = Arts[i].link
        /\ \A j \in DOMAIN Arts : Arts[j].link = Arts[i].link => j <= k

\* the record of article k: its fields, its drawback, the run date
BuiltRecord(k) ==
    [title |-> Arts[k].title,
     link |-> Arts[k].link,
     summary |-> Arts[k].summary,
     published |-> Arts[k].published,
     source |-> Arts[k].source,
     category |-> Arts[k].category,
     drawbacks |-> suggest_drawback(sworlds[k], Arts[k].title, Arts[k].summary, Arts[k].source),
     fetched |-> today]

LinksOf(file) == {file.items[i].link : i \in DOMAIN file.items}

\* C1: after write_json no link occurs twice in the written records, and
\* every link of the digest has its record, which is the record built from
\* the (last) article with that link and the run date, whatever the store
\* held for the link before.
C1_OneRecordPerLink ==
    Written =>
        /\ \A i, j \in DOMAIN Items : Items[i].link = Items[j].link => i = j
        /\ \A i \in DOMAIN Arts :
                \E j \in DOMAIN Items : Items[j] = BuiltRecord(LastWithLink(i))

\* the store held link L with another fetch date and other fields, and the
\* digest brings two articles with link L
C1_Witness ==
    /\ Written
    /\ Len(Arts) = 2 /\ Arts[1].link = "http://x/a" /\ Arts[2].link = "http://x/a"
    /\ Arts[1] # Arts[2]
    /\ \E i \in DOMAIN prevStore.items :
            /\ prevStore.items[i].link = "http://x/a"
            /\ prevStore.items[i].fetched # today
            /\ prevStore.items[i].title # Arts[2].title
    /\ Len(Items) >= 2

\* C2 as stated: a merge keeps every stored record whose link no article of
\* the digest has, with all its fields, and two articles with distinct links
\* yield two records.
C2_Original ==
    Written =>
        /\ \A i \in DOMAIN prevStore.items :
                (\A k \in DOMAIN Arts : Arts[k].link # prevStore.items[i].link) =>
                    \E j \in DOMAIN Items : Items[j] = prevStore.items[i]
        /\ \A i, k \in DOMAIN Arts :
                Arts[i].link # Arts[k].link =>
                    \E j1, j2 \in DOMAIN Items :
                        /\ j1 # j2
                        /\ Items[j1].link = Arts[i].link
                        /\ Items[j2].link = Arts[k].link

\* C3 as stated: every link in the store before a run of write_json is in
\* the store after it (prevStore is the file as the run found it, so a file
\* deleted between runs is not counted).
C3_Original == op = "write_json" => LinksOf(prevStore) \subseteq LinksOf(store)

\* C4 as stated: on a corrupt or unparseable store file write_json does not
\* fail and writes exactly the records of the digest's articles.
C4_Original ==
    (op = "write_json" /\ prevStore.kind \in DamagedKinds) =>
        /\ serr = "none"
        /\ store.kind = "list"
        /\ \A j \in DOMAIN Items : \E k \in DOMAIN Arts : Items[j] = BuiltRecord(k)
        /\ \A k \in DOMAIN Arts : \E j \in DOMAIN Items : Items[j].link = Arts[k].link

LinkSeq(recs) == [i \in DOMAIN recs |-> recs[i].link]

NonEmpty(l) == l # ""

\* a sequence without its repetitions, first occurrences kept
RECURSIVE Distinct(_, _)
Distinct(ls, seen) ==
    IF ls = << >> THEN << >>
    ELSE IF Head(ls) \in seen THEN Distinct(Tail(ls), seen)
    ELSE <<Head(ls)>> \o Distinct(Tail(ls), seen \cup {Head(ls)})

\* insertion order of the merged map: the stored links in file order, then
\* the links new to the store in digest order
InsertionOrder ==
    Distinct(SelectSeq(LinkSeq(prevStore.items), NonEmpty) \o LinkSeq(Arts), {})

Position(l) == CHOOSE k \in DOMAIN merged : merged[k].link = l

\* C5: the written list holds the records of the merged map, ordered by
\* fetch date descending, records with equal fetch dates in their insertion
\* order: stored records in file order, an overwritten link at its old
\* position, then new links in digest order.
C5_StableDescending ==
    Written =>
        /\ LinkSeq(merged) = InsertionOrder
        /\ Len(Items) = Len(merged)
        /\ {Items[i] : i \in DOMAIN Items} = {merged[i] : i \in DOMAIN merged}
        /\ \A i, j \in DOMAIN Items :
                i < j =>
                    /\ ~StrLess(Items[i].fetched, Items[j].fetched)
                    /\ Items[i].fetched = Items[j].fetched =>
                            Position(Items[i].link) < Position(Items[j].link)

\* three records, two of them with equal fetch dates, and the sort moved one
C5_Witness ==
    /\ Written
    /\ Len(Items) = 3
    /\ Items # merged
    /\ \E i, j \in DOMAIN Items : i # j /\ Items[i].fetched = Items[j].fetched
    /\ \E i \in DOMAIN prevStore.items : \E k \in DOMAIN Arts :
            prevStore.items[i].link = Arts[k].link

----------------------------------------------------------------------------
(* Properties of the run of main() (Spec) *)

\* a required mail variable is not set (the sender defaults to the user)
MissingRequired(m) ==
    \/ m.host = None \/ m.user = None \/ m.pass = None \/ m.to = None
    \/ (m.from = None /\ m.user = None)

EmailFailed == pc = "email" /\ merr # "none"

EmailSent == steps # << >> /\ steps[Len(steps)] = "email"

\* C9: send_email with a required mail variable unset raises before any
\* connection is opened, to the mail relay or to the text-generation service
\* (the message is not built), and hands no message to the relay.  The error is
\* the RuntimeError of the configuration check, or the ValueError of int() when
\* SMTP_PORT is set to something that is no number.
C9_ConfigErrorBeforeNetwork ==
    /\ (EmailFailed /\ MissingRequired(mailenv)) =>
            /\ \/ merr = "RuntimeError"
               \/ merr = "ValueError" /\ mailenv.port # None /\ ~IsDecimal(mailenv.port[1])
            /\ net = << >>
            /\ mailbox = << >>
    /\ EmailSent => ~MissingRequired(mailenv)

\* the host is unset, the rest is set, and the digest has articles to annotate
C9_Witness ==
    /\ EmailFailed
    /\ merr = "RuntimeError"
    /\ mailenv.host = None /\ mailenv.user # None /\ mailenv.pass # None
    /\ mailenv.to # None /\ mailenv.port = Some("2525")
    /\ Len(DigestArticles(mdigest)) >= 2
    /\ html # << >>

\* the steps of a complete run, in order
PlannedSteps ==
    <<"load">> \o [i \in DOMAIN feeds |-> "fetch"] \o <<"render">>
    \o (IF Truthy(args.json) THEN <<"json">> ELSE << >>)
    \o (IF args.send_email THEN <<"email">> ELSE << >>)

Did(step) == \E i \in DOMAIN steps : steps[i] = step

\* C10: the steps of a run happen in the order load, one fetch per feed in
\* configuration order, render, then the store merge if a JSON path is given,
\* then the email if requested.  No output exists before every feed is fetched:
\* a failing load or fetch leaves the HTML file, the store and the mailbox
\* untouched; a failing store merge or email leaves what the earlier steps
\* wrote.
C10_LinearOrder ==
    /\ Len(steps) <= Len(PlannedSteps)
    /\ steps = SubSeq(PlannedSteps, 1, Len(steps))
    /\ fetched = [i \in 1..Len(fetched) |-> feeds[i].name]
    /\ Did("render") => Len(fetched) = Len(feeds)
    /\ (html # << >>) = Did("render")
    /\ (mstore # mstore0) => Did("json")
    /\ (mailbox # << >>) = Did("email")
    /\ (Did("json") \/ Did("email")) => html # << >>
    /\ (Did("email") /\ Truthy(args.json)) => Did("json")
    /\ (merr # "none" /\ pc \in {"load", "fetch"}) =>
            html = << >> /\ mstore = mstore0 /\ mailbox = << >>
    /\ (merr # "none" /\ pc = "json") =>
            html = Some(render_html(mdigest)) /\ mstore = mstore0 /\ mailbox = << >>
    /\ (merr # "none" /\ pc = "email") =>
            /\ html = Some(render_html(mdigest))
            /\ Truthy(args.json) => (Did("json") /\ mstore.kind = "list")
    /\ pc = "done" => steps = PlannedSteps

\* the third feed fails after two were fetched: nothing is written
C10_Witness ==
    /\ pc = "fetch" /\ merr = "URLError"
    /\ Len(feeds) = 3 /\ Len(fetched) = 2
    /\ Truthy(args.json) /\ args.send_email
    /\ mstore0.kind = "list"
    /\ html = << >> /\ mstore = mstore0 /\ mailbox = << >>

====
